---- MODULE Spec2Model ----
(***************************************************************************)
(* Model of the expense-management application: the server rate limiter,   *)
(* the receipt-analysis post-processing, the expenses table with its       *)
(* row-level policies and audit trigger, the Expenses page handlers, the   *)
(* expense upload form and the sign-up form.                               *)
(*                                                                         *)
(* Each subsystem has its own variables and its own specification; the     *)
(* variables of the other subsystems stay at their initial values.         *)
(***************************************************************************)
EXTENDS Integers, Sequences, FiniteSets, TLC

(***************************************************************************)
(* Bounds of the model                                                     *)
(***************************************************************************)
\* the wall clock stops here (milliseconds since the start of the process)
MaxTime == 300001
\* the clock's sub-second part never exceeds this many milliseconds
MaxFineMs == 1
\* most milliseconds that pass between two Date.now() reads of one synchronous
\* stretch of a handler
MaxSyncDelayMs == 1
\* most rows the expenses table holds
MaxExpenses == 1
\* most rows the audit log holds: no statement that would write one more runs
MaxAuditRows == 3
\* most rows the files table holds, and most objects the bucket holds
MaxFiles == 1
MaxPageLoads == 2
MaxResets == 2
MaxTimers == 2

(***************************************************************************)
(* Small helpers                                                           *)
(***************************************************************************)
\* Math.ceil(n / d) for an integer n and d > 0 (JavaScript prints -0 as "0")
CeilDiv(n, d) == -((-n) \div d)

Max(a, b) == IF a >= b THEN a ELSE b

\* Map.set(key, value) on a map held as a function
MapSet(m, k, v) == [x \in (DOMAIN m) \cup {k} |-> IF x = k THEN v ELSE m[x]]

EmptyMap == [x \in {} |-> 0]

(***************************************************************************)
(* JavaScript numbers.  Amounts are held in thousandths of a currency unit  *)
(* (12.34 is 12340), so the 0.01 of the code is 10.  NaN is a value of its  *)
(* own: arithmetic on it gives NaN and every comparison with it is false.   *)
(***************************************************************************)
Num(v) == [nan |-> FALSE, v |-> v]

NaN == [nan |-> TRUE, v |-> 0]

JsAdd(a, b) == IF a.nan \/ b.nan THEN NaN ELSE Num(a.v + b.v)

JsSub(a, b) == IF a.nan \/ b.nan THEN NaN ELSE Num(a.v - b.v)

\* Math.abs
JsAbs(a) == IF a.nan THEN NaN ELSE Num(IF a.v < 0 THEN -a.v ELSE a.v)

\* a > b
JsGt(a, b) == ~a.nan /\ ~b.nan /\ a.v > b.v

\* a <= b
JsLe(a, b) == ~a.nan /\ ~b.nan /\ a.v <= b.v

\* a || 0 on a number: NaN and 0 are falsy
OrZero(a) == IF a.nan THEN Num(0) ELSE a

\* the 0.01 the code compares differences with
Tolerance == Num(10)

\* JSON values an amount field can hold after JSON.parse
JNum(v) == [t |-> "number", v |-> v, numeric |-> TRUE]

JStr(v, numeric) == [t |-> "string", v |-> v, numeric |-> numeric]

JNull == [t |-> "null", v |-> 0, numeric |-> FALSE]

JUndefined == [t |-> "undefined", v |-> 0, numeric |-> FALSE]

\* Number(x): a number is itself, null is 0, a missing field (undefined) is NaN,
\* a string is the number it spells or NaN
ToNumber(j) ==
    CASE j.t = "number" -> Num(j.v)
      [] j.t = "null" -> Num(0)
      [] j.t = "string" -> IF j.numeric THEN Num(j.v) ELSE NaN
      [] OTHER -> NaN

(***************************************************************************)
(* Variables                                                               *)
(***************************************************************************)
VARIABLES
    now,              \* Date.now(): the wall clock, in milliseconds
    clients,          \* the request shapes that reach the rate-limiter function
    rateLimitStore,   \* rate-limiter/index.ts: rateLimitStore (key -> entry)
    rlResponse,       \* the last response of the rate-limiter function
    allowedInWindow,  \* history: per (client IP, endpoint) pair, the requests of
                      \* the pair allowed since its key's window was last started
    arResponse,       \* the last response of the analyze-receipt function
    arRequest,        \* history: the request that response answered
    profiles,         \* table public.profiles: user id -> row
    expenses,         \* table public.expenses: id -> row
    files,            \* table public.files: id -> row
    audit_logs,       \* table public.audit_logs, in insertion order
    storageObjects,   \* number of objects in the storage bucket 'receipts'
    sessions,         \* Expenses page, per signed-in browser session: its state
    lastOp,           \* the last handler or API call and how it ended
    authFormData,     \* Auth page: the fields of the form
    authError,        \* Auth page: the error shown
    clientStorage,    \* ClientRateLimiter.storage of the browser
    lastSignUp,       \* the last submission of the sign-up form and how it ended
    signInWindow,     \* history: the 5-minute window of sign-in calls of this page
                      \* load, its start and the calls that reached the backend
    upload,           \* ExpenseUpload page: file, extractedData, formData
    analysis,         \* ExpenseUpload page: analyzing, progress, the progress
                      \* interval timers that run, the file being analyzed
    location,         \* BrowserRouter: the path of the current location
    useAuth,          \* the useAuth state of ProtectedRoutes: user, loading
    storedSession,    \* the session supabase.auth holds in the browser, if any
    screen,           \* what the routes render
    errorBoundary,    \* ErrorBoundary: this.state (hasError, error, errorInfo)
    profileTx,        \* per user: the UPDATE of public.profiles the user's request
                      \* has running in the database, not committed yet
    boundaryLife      \* history: which page load the ErrorBoundary belongs to
                      \* and how often its handleReset has run

rlVars == <<now, clients, rateLimitStore, rlResponse, allowedInWindow>>

arVars == <<arResponse, arRequest>>

dbVars == <<profiles, expenses, files, audit_logs, storageObjects>>

uiVars == <<sessions, lastOp>>

authVars == <<authFormData, authError, clientStorage, lastSignUp, signInWindow>>

upVars == <<upload, analysis>>

navVars == <<location, useAuth, storedSession, screen>>

ebVars == <<errorBoundary, boundaryLife>>

txVars == <<profileTx>>

vars == <<rlVars, arVars, dbVars, uiVars, authVars, upVars, navVars, ebVars, txVars>>

(***************************************************************************)
(* supabase/functions/rate-limiter/index.ts                                *)
(***************************************************************************)
rateLimitConfig ==
    ( "/analyze-receipt" :> [windowMs |-> 60000,  maxRequests |-> 10] ) @@
    ( "/auth/signup"     :> [windowMs |-> 300000, maxRequests |-> 3] ) @@
    ( "/auth/signin"     :> [windowMs |-> 300000, maxRequests |-> 5] ) @@
    ( "default"          :> [windowMs |-> 60000,  maxRequests |-> 30] )

\* rateLimitConfig[endpoint] || rateLimitConfig.default
ConfigFor(endpoint) ==
    IF endpoint \in DOMAIN rateLimitConfig
    THEN rateLimitConfig[endpoint]
    ELSE rateLimitConfig["default"]

\* `${clientIP}:${endpoint}`
getRateLimitKey(clientIP, endpoint) == clientIP \o ":" \o endpoint

\* headers.get('x-forwarded-for') || headers.get('x-real-ip') || 'unknown'
\* (a header that is absent and one that is empty are both falsy: both are "")
ClientIPOf(req) ==
    IF req.xff # "" THEN req.xff
    ELSE IF req.xri # "" THEN req.xri
    ELSE "unknown"

KeyOf(req) == getRateLimitKey(ClientIPOf(req), req.path)

\* the (client IP, endpoint) pair of a request
PairOf(req) == <<ClientIPOf(req), req.path>>

\* now > entry.resetTime
Expired_AtExpiry(entry, t) == t >= entry.resetTime

Expired(entry, t) == t > entry.resetTime

\* entry.count < config.maxRequests
UnderLimit(entry, config) == entry.count < config.maxRequests

\* the entry written when there is none or it has expired
NewEntry(t, config) == [count |-> 1, resetTime |-> t + config.windowMs]

\* isRateLimited(clientIP, endpoint) called at time t on store: the result and
\* the store it leaves
isRateLimited(store, clientIP, endpoint, t) ==
    LET config == ConfigFor(endpoint)
        key    == getRateLimitKey(clientIP, endpoint)
    IN  IF key \notin DOMAIN store \/ Expired(store[key], t)
        THEN [limited |-> FALSE, resetTime |-> 0,
              branch |-> IF key \in DOMAIN store THEN "expired" ELSE "new",
              store |-> MapSet(store, key, NewEntry(t, config))]
        ELSE IF UnderLimit(store[key], config)
        THEN [limited |-> FALSE, resetTime |-> 0, branch |-> "counted",
              store |-> [store EXCEPT ![key].count = @ + 1]]
        ELSE [limited |-> TRUE, resetTime |-> store[key].resetTime,
              branch |-> "limited", store |-> store]

\* Math.ceil((resetTime - Date.now()) / 1000)
RetryAfterSeconds(resetTime, t) == CeilDiv(resetTime - t, 1000)

LimitHeader_Default(endpoint) == 30

\* rateLimitConfig[endpoint]?.maxRequests.toString() || '30'
LimitHeader(endpoint) ==
    IF endpoint \in DOMAIN rateLimitConfig
    THEN rateLimitConfig[endpoint].maxRequests
    ELSE 30

\* the names of the headers of the 429 response
LimitedHeaders ==
    {"Content-Type", "Retry-After", "X-RateLimit-Limit", "X-RateLimit-Remaining",
     "X-RateLimit-Reset"}

\* the names of the headers of the 200 response
AllowedHeaders ==
    {"Content-Type", "Access-Control-Allow-Origin", "Access-Control-Allow-Methods",
     "Access-Control-Allow-Headers"}

NoResponse ==
    [status |-> 0, req |-> [xff |-> "", xri |-> "", path |-> ""], branch |-> "",
     retryAfter |-> 0, retryAfterHeader |-> 0, limitHeader |-> 0,
     allowed |-> FALSE, headers |-> {}]

\* the request shapes of the model: header values and URL paths
Req(xff, xri, path) == [xff |-> xff, xri |-> xri, path |-> path]

\* Each scenario is the set of request shapes one run of the process sees.
Scenarios ==
    { \* two clients of one endpoint; the second is also seen through x-real-ip
      { Req("10.0.0.1", "", "/auth/signup"),
        Req("10.0.0.2", "", "/auth/signup"),
        Req("", "10.0.0.2", "/auth/signup") },
      \* one client on two endpoints
      { Req("10.0.0.1", "10.9.9.9", "/auth/signin"),
        Req("10.0.0.1", "", "/analyze-receipt") },
      \* two (client IP, endpoint) pairs whose keys have the same text
      { Req("10.0.0.1", "", "/x:/auth/signin"),
        Req("10.0.0.1:/x", "", "/auth/signin") },
      \* no address header, a path no rule names
      { Req("", "", "/rate-limiter/auth/signin") } }

\* no request ever reaches the function
RlIdle ==
    /\ now = 0
    /\ clients = {}
    /\ rateLimitStore = EmptyMap
    /\ rlResponse = NoResponse
    /\ allowedInWindow = EmptyMap

\* the time a fresh process starts at is 0
RlInit ==
    /\ now = 0
    /\ clients \in Scenarios
    /\ rateLimitStore = EmptyMap
    /\ rlResponse = NoResponse
    /\ allowedInWindow = EmptyMap

ClockOk(t) == t <= MaxTime /\ t % 1000 <= MaxFineMs

\* time passes: a millisecond, or the length of a configured window
Tick ==
    /\ \E d \in {1} \cup {rateLimitConfig[e].windowMs : e \in DOMAIN rateLimitConfig} :
          /\ ClockOk(now + d)
          /\ now' = now + d
    /\ UNCHANGED <<clients, rateLimitStore, rlResponse, allowedInWindow>>
    /\ UNCHANGED <<navVars, ebVars, txVars, arVars, dbVars, uiVars, authVars, upVars>>

\* serve(async (req) => ...): one request, from the URL to the response
RateLimiterRequest(req, d1, d2) ==
    LET endpoint == req.path
        clientIP == ClientIPOf(req)
        key      == getRateLimitKey(clientIP, endpoint)
        result   == isRateLimited(rateLimitStore, clientIP, endpoint, now)
        fresh    == key \notin DOMAIN rateLimitStore
                    \/ now > rateLimitStore[key].resetTime
        pair     == <<clientIP, endpoint>>
        sameKey  == {p \in DOMAIN allowedInWindow : getRateLimitKey(p[1], p[2]) = key}
        started  == IF fresh
                    THEN [p \in DOMAIN allowedInWindow |->
                             IF p \in sameKey THEN 0 ELSE allowedInWindow[p]]
                    ELSE allowedInWindow
        before   == IF pair \in DOMAIN started THEN started[pair] ELSE 0
    IN  /\ ClockOk(now + d1 + d2)
        /\ now' = now + d1 + d2
        /\ rateLimitStore' = result.store
        /\ rlResponse' =
              IF result.limited
              THEN [status |-> 429, req |-> req, branch |-> result.branch,
                    retryAfter |-> RetryAfterSeconds(result.resetTime, now + d1),
                    retryAfterHeader |->
                        RetryAfterSeconds(result.resetTime, now + d1 + d2),
                    limitHeader |-> LimitHeader(endpoint),
                    allowed |-> FALSE, headers |-> LimitedHeaders]
              ELSE [status |-> 200, req |-> req, branch |-> result.branch,
                    retryAfter |-> 0, retryAfterHeader |-> 0, limitHeader |-> 0,
                    allowed |-> TRUE, headers |-> AllowedHeaders]
        /\ allowedInWindow' =
              MapSet(started, pair,
                     IF result.limited THEN before ELSE before + 1)
        /\ UNCHANGED <<clients, navVars, ebVars, txVars, arVars, dbVars, uiVars, authVars, upVars>>

RlRequest ==
    \E req \in clients, d1, d2 \in 0..MaxSyncDelayMs : RateLimiterRequest(req, d1, d2)

RlNext == Tick \/ RlRequest

(***************************************************************************)
(* supabase/functions/analyze-receipt/index.ts                             *)
(***************************************************************************)
allowedTypes == {"image/jpeg", "image/jpg", "image/png", "application/pdf"}

\* 10 * 1024 * 1024
maxSize == 10 * 1024 * 1024

\* "Validate financial coherence": net is recomputed as gross - VAT when
\* |net + VAT - gross| > 0.01
NeedsCorrection(analysisResult) ==
    LET netPlusVat  == JsAdd(ToNumber(analysisResult.amount_net),
                             ToNumber(analysisResult.tax_vat))
        grossAmount == ToNumber(analysisResult.amount_gross)
        difference  == JsAbs(JsSub(netPlusVat, grossAmount))
    IN  JsGt(difference, Tolerance)

\* a JavaScript number stored into the result and serialised by JSON.stringify,
\* which writes NaN as null
FromNumber(a) == IF a.nan THEN JNull ELSE JNum(a.v)

FinancialCoherence(analysisResult) ==
    IF NeedsCorrection(analysisResult)
    THEN [analysisResult EXCEPT
            !.amount_net = FromNumber(JsSub(ToNumber(analysisResult.amount_gross),
                                            ToNumber(analysisResult.tax_vat)))]
    ELSE analysisResult

(***************************************************************************)
(* analyze-receipt: the vendor of the result.  A text is the sequence of    *)
(* its characters.                                                          *)
(***************************************************************************)
VStr(chars) == [t |-> "string", chars |-> chars]

VUndefined == [t |-> "undefined", chars |-> <<>>]

VNull == [t |-> "null", chars |-> <<>>]

VNumber == [t |-> "number", chars |-> <<"7">>]

\* \w of a regular expression without the u flag
WordChars ==
    { "A", "B", "C", "D", "E", "F", "G", "H", "I", "J", "K", "L", "M",
      "N", "O", "P", "Q", "R", "S", "T", "U", "V", "W", "X", "Y", "Z",
      "a", "b", "c", "d", "e", "f", "g", "h", "i", "j", "k", "l", "m",
      "n", "o", "p", "q", "r", "s", "t", "u", "v", "w", "x", "y", "z",
      "0", "1", "2", "3", "4", "5", "6", "7", "8", "9", "_" }

\* \s, as far as the texts of the model go
SpaceChars == {" "}

\* a character the class [^\w\s\-\.] does not match
VendorCharKept(c) == c \in WordChars \cup SpaceChars \cup {"-", "."}

RECURSIVE TrimStart(_)
TrimStart(chars) ==
    IF chars # <<>> /\ Head(chars) \in SpaceChars THEN TrimStart(Tail(chars))
    ELSE chars

RECURSIVE TrimEnd(_)
TrimEnd(chars) ==
    IF chars # <<>> /\ chars[Len(chars)] \in SpaceChars
    THEN TrimEnd(SubSeq(chars, 1, Len(chars) - 1))
    ELSE chars

\* String.prototype.trim
TrimChars(chars) == TrimEnd(TrimStart(chars))

\* 'Comercio no identificado'
VendorPlaceholder ==
    <<"C", "o", "m", "e", "r", "c", "i", "o", " ", "n", "o", " ", "i", "d", "e", "n", "t", "i", "f", "i", "c", "a", "d", "o">>

\* !analysisResult.vendor || analysisResult.vendor.trim().length === 0
VendorMissing(vendor) ==
    \/ vendor.t \in {"undefined", "null"}
    \/ vendor.t = "string" /\ TrimChars(vendor.chars) = <<>>

\* .trim().replace(/[^\w\s\-\.]/g, '').substring(0, 100)
CleanVendorName(chars) ==
    LET kept == SelectSeq(TrimChars(chars), VendorCharKept)
    IN  SubSeq(kept, 1, IF Len(kept) < 100 THEN Len(kept) ELSE 100)

\* the vendor after the additional validation and the cleaning; a vendor
\* that is not a string has no trim method
VendorThrows(vendor) == ~VendorMissing(vendor) /\ vendor.t # "string"

CleanVendor(vendor) ==
    VStr(CleanVendorName(IF VendorMissing(vendor) THEN VendorPlaceholder
                         ELSE vendor.chars))

\* the vendors the model's JSON may hold
Vendors ==
    { VStr(<<"B", "a", "r">>), VStr(<<>>), VStr(<<" ", " ">>), VUndefined, VNull,
      VNumber, VStr(<<"€", "€">>), VStr(<<" ", "@", "B", "&", " ">>),
      VStr(<<"é", " ", "é">>), VStr([i \in 1..101 |-> "a"]) }

NoData ==
    [amount_gross |-> JUndefined, tax_vat |-> JUndefined, amount_net |-> JUndefined,
     vendor |-> VUndefined]

ArResponse(status, success, hasSuccess, data, error, geminiCalls) ==
    [status |-> status, success |-> success, hasSuccess |-> hasSuccess,
     data |-> data, error |-> error, geminiCalls |-> geminiCalls]

ArNoResponse == ArResponse(0, FALSE, FALSE, NoData, "", 0)

ArRequested(hasApiKey, file, gemini, parsed) ==
    [hasApiKey |-> hasApiKey, file |-> file, gemini |-> gemini, parsed |-> parsed]

\* how the request goes on after the file checks: the conversion to base64
\* throws before the call, or the generative-AI call is made and gives back an
\* HTTP error, no text, text that JSON.parse refuses, or JSON
GeminiOutcomes == {"encode_error", "http_error", "no_text", "bad_json", "json"}

\* the amount values the model's JSON may hold
AmountValues ==
    { JNum(100000), JNum(82640), JNum(82645), JNum(17360), JNum(0), JNum(-5000),
      JStr(100000, TRUE), JStr(0, FALSE), JNull, JUndefined }

GrossValues == { JNum(100000), JNum(0), JStr(100000, TRUE), JUndefined }

\* the files a request may carry: none, or a type and a size
FileInput(multipart, present, type, size) ==
    [multipart |-> multipart, present |-> present, type |-> type, size |-> size]

\* the bodies a request may carry: not form data at all, form data without a
\* file, or form data with a file of a type and a size
FileInputs ==
    { FileInput(FALSE, FALSE, "", 0),
      FileInput(TRUE, FALSE, "", 0),
      FileInput(TRUE, TRUE, "image/png", 1024),
      FileInput(TRUE, TRUE, "application/pdf", maxSize),
      FileInput(TRUE, TRUE, "image/jpeg", maxSize + 1),
      FileInput(TRUE, TRUE, "image/gif", 1024) }

ParseFailed_Never(gemini) == FALSE

\* JSON.parse(generatedText) throws
ParseFailed(gemini) == gemini = "bad_json"

TooLarge_Inclusive(file) == file.size >= maxSize

\* file.size > maxSize
TooLarge(file) == file.size > maxSize

\* the response serve(async (req) => ...) gives to one POST
AnalyzeReceiptResponse(hasApiKey, file, gemini, parsed) ==
    IF ~hasApiKey
    THEN ArResponse(500, FALSE, FALSE, NoData, "API key de Gemini no configurada", 0)
    ELSE IF ~file.multipart
    THEN ArResponse(500, FALSE, TRUE, NoData, "Error interno del servidor", 0)
    ELSE IF ~file.present
    THEN ArResponse(400, FALSE, FALSE, NoData, "No se recibio ningun archivo", 0)
    ELSE IF file.type \notin allowedTypes
    THEN ArResponse(400, FALSE, FALSE, NoData, "Tipo de archivo no valido", 0)
    ELSE IF TooLarge(file)
    THEN ArResponse(400, FALSE, FALSE, NoData, "El archivo es demasiado grande", 0)
    ELSE IF gemini = "encode_error"
    THEN ArResponse(500, FALSE, TRUE, NoData, "Maximum call stack size exceeded", 0)
    ELSE IF gemini = "http_error"
    THEN ArResponse(500, FALSE, TRUE, NoData, "Error de Gemini API", 1)
    ELSE IF gemini = "no_text"
    THEN ArResponse(500, FALSE, TRUE, NoData,
                    "No se pudo generar contenido desde Gemini", 1)
    ELSE IF ParseFailed(gemini)
    THEN ArResponse(500, FALSE, TRUE, NoData,
                    "Error al interpretar la respuesta de IA", 1)
    ELSE IF VendorThrows(parsed.vendor)
    THEN ArResponse(500, FALSE, TRUE, NoData,
                    "analysisResult.vendor.trim is not a function", 1)
    ELSE ArResponse(200, TRUE, TRUE,
                    [FinancialCoherence(parsed) EXCEPT !.vendor = CleanVendor(@)],
                    "", 1)

\* serve(async (req) => ...): one POST, from the request to the response
AnalyzeReceipt(hasApiKey, file, gemini, parsed) ==
    /\ arResponse' = AnalyzeReceiptResponse(hasApiKey, file, gemini, parsed)
    /\ arRequest' = ArRequested(hasApiKey, file, gemini, parsed)
    /\ UNCHANGED <<rlVars, navVars, ebVars, txVars, dbVars, uiVars, authVars, upVars>>

\* the requests of the model: every way to fail before the result is parsed,
\* and every parsed result for a request that gets that far
ArFailingInputs ==
    { [hasApiKey |-> k, file |-> f, gemini |-> g, parsed |-> NoData] :
        k \in BOOLEAN, f \in FileInputs, g \in GeminiOutcomes \ {"json"} }
    \cup
    { [hasApiKey |-> k, file |-> f, gemini |-> "json", parsed |-> NoData] :
        k \in BOOLEAN,
        f \in {x \in FileInputs : ~x.multipart \/ ~x.present
                                      \/ x.type \notin allowedTypes
                                      \/ x.size > maxSize} }

ArParsedInputs ==
    LET valid == {x \in FileInputs : x.present /\ x.type \in allowedTypes
                                                /\ x.size <= maxSize}
    IN  { [hasApiKey |-> TRUE, file |-> f, gemini |-> "json",
           parsed |-> [amount_gross |-> gross, tax_vat |-> vat, amount_net |-> net,
                       vendor |-> VStr(<<"B", "a", "r">>)]] :
            f \in valid,
            gross \in GrossValues, vat \in AmountValues, net \in AmountValues }
        \cup
        { [hasApiKey |-> TRUE, file |-> f, gemini |-> "json",
           parsed |-> [amount_gross |-> JNum(100000), tax_vat |-> JNum(17360),
                       amount_net |-> JNum(82640), vendor |-> vendor]] :
            f \in valid, vendor \in Vendors }

ArRequest ==
    \E in \in ArFailingInputs \cup ArParsedInputs :
        AnalyzeReceipt(in.hasApiKey, in.file, in.gemini, in.parsed)

(***************************************************************************)
(* The database: tables, row-level security and the audit trigger          *)
(***************************************************************************)
\* SQL NULL, and JavaScript null, in a text or id column
Null == "<null>"

UserIds == {"admin1", "emp1"}

\* the rows of public.profiles
InitialProfiles ==
    [u \in UserIds |-> [role |-> IF u = "emp1" THEN "EMPLOYEE" ELSE "ADMIN",
                        status |-> "ACTIVE"]]

get_current_user_role(uid) == profiles[uid].role

\* DECIMAL(12,2): a value in thousandths rounded to hundredths, half away from 0
RoundCents(v) ==
    IF v >= 0 THEN ((v + 5) \div 10) * 10 ELSE -(((-v + 5) \div 10) * 10)

ExpensesSelectUsing_Everyone(uid, row) == TRUE

\* policies "Users can view their own expenses" and "Admins can view all expenses"
ExpensesSelectUsing(uid, row) ==
    \/ row.employee_id = uid
    \/ get_current_user_role(uid) = "ADMIN"

\* policy "Users can insert their own expenses"
ExpensesInsertCheck(uid, row) == row.employee_id = uid

\* policies "Users can update their own pending expenses" and
\* "Admins can update all expenses"; permissive policies are OR-ed
ExpensesUpdateUsing(uid, row) ==
    \/ (row.employee_id = uid /\ row.status = "PENDING")
    \/ get_current_user_role(uid) = "ADMIN"

ExpensesUpdateCheck_Unchecked(uid, row) == TRUE

\* neither UPDATE policy has a WITH CHECK clause, so PostgreSQL checks the new
\* row against the USING expressions
ExpensesUpdateCheck(uid, row) == ExpensesUpdateUsing(uid, row)

\* row-level security is enabled and expenses has no DELETE policy
ExpensesDeleteUsing(uid, row) == FALSE

\* policy "Users can insert their own files"
FilesInsertCheck(uid, row) == row.uploaded_by = uid

\* policy "Authenticated users can insert audit logs"
AuditLogsInsertCheck(uid, row) == row.actor_user_id = uid

AuditLogsUpdateUsing_OwnRows(uid, row) == row.actor_user_id = uid

\* row-level security is enabled and audit_logs has no UPDATE policy
AuditLogsUpdateUsing(uid, row) == FALSE

\* row-level security is enabled and audit_logs has no DELETE policy
AuditLogsDeleteUsing(uid, row) == FALSE

\* the row the trigger audit_expense_changes writes
log_expense_changes(tgOp, old, new, uid, id) ==
    [ actor_user_id |-> uid,
      entity        |-> "expenses",
      entity_id     |-> id,
      action        |-> CASE tgOp = "INSERT" -> "CREATE"
                          [] tgOp = "UPDATE" -> "UPDATE"
                          [] tgOp = "DELETE" -> "DELETE",
      old_status    |-> IF tgOp # "INSERT" THEN old.status ELSE Null,
      new_status    |-> IF tgOp # "DELETE" THEN new.status ELSE Null,
      amount        |-> IF tgOp # "DELETE" THEN JNum(new.amount_gross) ELSE JNull ]

\* the columns of a row that a statement sets, the others kept
Patch(row, patch) ==
    [f \in DOMAIN row |-> IF f \in DOMAIN patch THEN patch[f] ELSE row[f]]

\* gen_random_uuid(): an id no row of the table has
FreshId(table) == CHOOSE i \in 1..(Cardinality(DOMAIN table) + 1) : i \notin DOMAIN table

DbResult(outcome, id, exp, audit) ==
    [outcome |-> outcome, id |-> id, expenses |-> exp, audit_logs |-> audit]

\* INSERT INTO expenses by user uid; data has the amounts as JavaScript numbers
\* (NaN is sent as JSON null, which amount_gross NOT NULL refuses)
DbInsertExpense(uid, data) ==
    IF data.amount_gross.nan \/ data.amount_net.nan
    THEN DbResult("constraint_error", 0, expenses, audit_logs)
    ELSE LET id  == FreshId(expenses)
             row == [data EXCEPT !.amount_gross = RoundCents(data.amount_gross.v),
                                 !.amount_net = RoundCents(data.amount_net.v),
                                 !.tax_vat = RoundCents(data.tax_vat.v)]
         IN  IF ~ExpensesInsertCheck(uid, row)
             THEN DbResult("rls_error", 0, expenses, audit_logs)
             ELSE DbResult("ok", id, MapSet(expenses, id, row),
                           Append(audit_logs,
                                  log_expense_changes("INSERT", row, row, uid, id)))

\* UPDATE expenses SET patch WHERE id = id, by user uid
DbUpdateExpense(uid, id, patch) ==
    IF id \notin DOMAIN expenses \/ ~ExpensesUpdateUsing(uid, expenses[id])
    THEN DbResult("no_rows", id, expenses, audit_logs)
    ELSE LET new == Patch(expenses[id], patch)
         IN  IF ~ExpensesUpdateCheck(uid, new)
             THEN DbResult("rls_error", id, expenses, audit_logs)
             ELSE DbResult("ok", id, MapSet(expenses, id, new),
                           Append(audit_logs,
                                  log_expense_changes("UPDATE", expenses[id], new,
                                                      uid, id)))

\* DELETE FROM expenses WHERE id = id, by user uid
DbDeleteExpense(uid, id) ==
    IF id \notin DOMAIN expenses \/ ~ExpensesDeleteUsing(uid, expenses[id])
    THEN DbResult("no_rows", id, expenses, audit_logs)
    ELSE DbResult("ok", id,
                  [i \in DOMAIN expenses \ {id} |-> expenses[i]],
                  Append(audit_logs,
                         log_expense_changes("DELETE", expenses[id], expenses[id],
                                             uid, id)))

\* no statement runs that could write a row beyond the bounds of the model
RoomForUpdate == Len(audit_logs) < MaxAuditRows

RoomForInsert ==
    /\ Cardinality(DOMAIN expenses) < MaxExpenses
    /\ Len(audit_logs) < MaxAuditRows

Op(op, actor, id, outcome) ==
    [op |-> op, actor |-> actor, id |-> id, outcome |-> outcome]

NoOp == Op("none", Null, 0, "none")

DbInit ==
    /\ profiles = InitialProfiles
    /\ expenses = EmptyMap
    /\ files = EmptyMap
    /\ audit_logs = <<>>
    /\ storageObjects = 0

(***************************************************************************)
(* ExpenseUpload: the form and saveExpense                                  *)
(***************************************************************************)
\* the amounts, in thousandths, that are typed, reported by the AI or computed
\* from those
AmountRange == {0, 4, 5, 17360, 21000, 82640, 82645, 100000, 121000, -5000}

\* the digits after the decimal point of a number with f thousandths
FractionText(f) ==
    IF f % 100 = 0 THEN ToString(f \div 100)
    ELSE IF f % 10 = 0 THEN ToString(f \div 100) \o ToString((f \div 10) % 10)
    ELSE ToString(f \div 100) \o ToString((f \div 10) % 10) \o ToString(f % 10)

\* Number.prototype.toString
NumberText(v) ==
    LET a == IF v < 0 THEN -v ELSE v
    IN  (IF v < 0 THEN "-" ELSE "") \o ToString(a \div 1000)
           \o (IF a % 1000 = 0 THEN "" ELSE "." \o FractionText(a % 1000))

\* the number each text of a number spells
AmountOfText == { <<NumberText(v), v>> : v \in AmountRange }

\* parseFloat on the texts an amount field can hold: the text of a number
\* gives the number, every other text of the model ("", "abc") gives NaN
ParseFloat(str) ==
    IF \E p \in AmountOfText : p[1] = str
    THEN Num((CHOOSE p \in AmountOfText : p[1] = str)[2])
    ELSE NaN

Trim_Identity(str) == str

\* String.prototype.trim on the texts the model types
Trim(str) == IF str \in {"", " ", "  "} THEN "" ELSE str

FormData(vendor, gross, net, vat) ==
    [ vendor |-> vendor, expense_date |-> "2025-09-01",
      amount_gross |-> gross, amount_net |-> net, tax_vat |-> vat,
      category_id |-> "cat1", payment_method |-> "CARD" ]

Forms ==
    { FormData("Bar", "121", "100", "21"),
      FormData("Bar", "121", "", ""),
      FormData("Bar", "0", "", ""),
      FormData("Bar", "-5", "-5", ""),
      FormData("Bar", "abc", "", ""),
      FormData("Bar", "0.004", "0.005", "0.005"),
      FormData("  ", "121", "100", "21"),
      [FormData("Bar", "121", "100", "21") EXCEPT !.category_id = ""] }

\* TRUE iff validateForm finds no error
validateForm(formData) ==
    LET gross == OrZero(ParseFloat(formData.amount_gross))
        net   == OrZero(ParseFloat(formData.amount_net))
        vat   == OrZero(ParseFloat(formData.tax_vat))
    IN  /\ Trim(formData.vendor) # ""
        /\ formData.expense_date # ""
        /\ ~(formData.amount_gross = ""
               \/ JsLe(ParseFloat(formData.amount_gross), Num(0)))
        /\ formData.category_id # ""
        /\ formData.payment_method # ""
        /\ ~JsGt(JsAbs(JsSub(JsAdd(net, vat), gross)), Tolerance)

\* the row saveExpense sends; approver_id and rejection_reason are not sent and
\* take the column default NULL
expenseData(uid, formData, fileId, hasExtractedData) ==
    [ employee_id     |-> uid,
      amount_net      |-> OrZero(ParseFloat(formData.amount_net)),
      tax_vat         |-> OrZero(ParseFloat(formData.tax_vat)),
      amount_gross    |-> ParseFloat(formData.amount_gross),
      receipt_file_id |-> fileId,
      source          |-> IF hasExtractedData THEN "AI_EXTRACTED" ELSE "MANUAL",
      status          |-> "PENDING",
      approver_id     |-> Null,
      rejection_reason |-> Null ]

\* the calls of saveExpense that can fail for reasons outside the model
SaveFailures == {"none", "session", "upload", "file_insert", "expense_insert"}

\* saveExpense, for the user uid signed in on the upload page, up to the reset
\* of the form
saveExpense(uid, formData, hasFile, hasExtractedData, failAt) ==
    /\ RoomForInsert
    /\ hasFile => Cardinality(DOMAIN files) < MaxFiles /\ storageObjects < MaxFiles
    /\ IF ~validateForm(formData)
       THEN /\ lastOp' = Op("saveExpense", uid, 0, "form_error")
            /\ UNCHANGED dbVars
       ELSE IF failAt = "session"
       THEN /\ lastOp' = Op("saveExpense", uid, 0, "no_session")
            /\ UNCHANGED dbVars
       ELSE IF hasFile /\ failAt = "upload"
       THEN /\ lastOp' = Op("saveExpense", uid, 0, "upload_error")
            /\ UNCHANGED dbVars
       ELSE LET fileRow  == [uploaded_by |-> uid]
                fileOk   == failAt # "file_insert" /\ FilesInsertCheck(uid, fileRow)
                fileId   == IF hasFile THEN FreshId(files) ELSE 0
                res      == DbInsertExpense(uid, expenseData(uid, formData, fileId,
                                                             hasExtractedData))
            IN  /\ storageObjects' = IF hasFile THEN storageObjects + 1
                                     ELSE storageObjects
                /\ IF hasFile /\ ~fileOk
                   THEN /\ lastOp' = Op("saveExpense", uid, 0, "file_error")
                        /\ UNCHANGED <<profiles, expenses, files, audit_logs>>
                   ELSE /\ files' = IF hasFile THEN MapSet(files, fileId, fileRow)
                                    ELSE files
                        /\ IF failAt = "expense_insert" \/ res.outcome # "ok"
                           THEN /\ lastOp' = Op("saveExpense", uid, 0, "insert_error")
                                /\ UNCHANGED <<profiles, expenses, audit_logs>>
                           ELSE /\ lastOp' = Op("saveExpense", uid, res.id, "ok")
                                /\ expenses' = res.expenses
                                /\ audit_logs' = res.audit_logs
                                /\ UNCHANGED profiles
    /\ UNCHANGED <<rlVars, navVars, ebVars, txVars, arVars, sessions, authVars>>

\* saveExpense on a form the user has just filled in: the values typed, the
\* file chosen and the analysis made are inputs
SaveExpense(uid, formData, hasFile, hasExtractedData, failAt) ==
    /\ saveExpense(uid, formData, hasFile, hasExtractedData, failAt)
    /\ UNCHANGED upVars

SaveExpenseStep ==
    \E uid \in UserIds, formData \in Forms, hasFile, hasExtractedData \in BOOLEAN,
       failAt \in SaveFailures :
        SaveExpense(uid, formData, hasFile, hasExtractedData, failAt)

(***************************************************************************)
(* ExpenseUpload: the page from the choice of a file to the saved expense   *)
(***************************************************************************)
NoFile == FileInput(TRUE, FALSE, "", 0)

EmptyForm ==
    [ vendor |-> "", expense_date |-> "", amount_gross |-> "", amount_net |-> "",
      tax_vat |-> "", category_id |-> "", payment_method |-> "" ]

NoExtractedData == [present |-> FALSE, data |-> NoData, reported |-> NoData]

Upload(file, extractedData, formData) ==
    [file |-> file, extractedData |-> extractedData, formData |-> formData]

\* x?.toString() || '' on a field of the result
FieldText(j) ==
    CASE j.t = "number" -> NumberText(j.v)
      [] j.t = "string" -> IF j.numeric THEN NumberText(j.v) ELSE "abc"
      [] OTHER -> ""

\* the form analyzeReceipt fills from the data of a result
PrefilledForm(data) ==
    FormData("Bar", FieldText(data.amount_gross), FieldText(data.amount_net),
             FieldText(data.tax_vat))

\* the files the user can pick
SelectableFiles == {f \in FileInputs : f.multipart /\ f.present}

\* handleFileSelect
handleFileSelect(selectedFile) ==
    /\ upload.file # selectedFile
    /\ IF selectedFile.type \notin allowedTypes \/ selectedFile.size > maxSize
       THEN /\ lastOp' = Op("handleFileSelect", Null, 0, "rejected")
            /\ UNCHANGED upload
       ELSE /\ lastOp' = Op("handleFileSelect", Null, 0, "ok")
            /\ upload' = [upload EXCEPT !.file = selectedFile]
    /\ UNCHANGED analysis
    /\ UNCHANGED <<rlVars, navVars, ebVars, txVars, arVars, dbVars, sessions, authVars>>

\* the results the AI reports for the receipts of the model
UploadParsedInputs ==
    { [amount_gross |-> gross, tax_vat |-> vat, amount_net |-> net,
       vendor |-> VStr(<<"B", "a", "r">>)] :
        gross \in {JNum(100000)},
        vat \in {JNum(0), JNum(17360)},
        net \in {JNum(100000), JNum(82640), JNull, JUndefined,
                 JStr(0, FALSE)} }

UploadAnalysisInputs ==
    { [hasApiKey |-> k, gemini |-> g, parsed |-> NoData] :
        k \in BOOLEAN, g \in GeminiOutcomes \ {"json"} }
    \cup
    { [hasApiKey |-> TRUE, gemini |-> "json", parsed |-> parsed] :
        parsed \in UploadParsedInputs }

\* no analysis runs and no progress timer is left
NoAnalysis == [analyzing |-> FALSE, progress |-> 0, timers |-> 0, file |-> NoFile]

\* the answer of the analyze-receipt function has arrived: a successful result
\* fills the form; the result names a vendor, a date, a payment method and a
\* category that exists
AnalysisAnswered(file, hasApiKey, gemini, parsed) ==
    LET response == AnalyzeReceiptResponse(hasApiKey, file, gemini, parsed)
    IN  /\ arResponse' = response
        /\ arRequest' = ArRequested(hasApiKey, file, gemini, parsed)
        /\ IF response.status = 200 /\ response.success
           THEN /\ upload' =
                     Upload(upload.file,
                            [present |-> TRUE, data |-> response.data,
                             reported |-> parsed],
                            PrefilledForm(response.data))
                /\ lastOp' = Op("analyzeReceipt", Null, 0, "ok")
           ELSE /\ lastOp' = Op("analyzeReceipt", Null, 0, "error")
                /\ UNCHANGED upload

\* analyzeReceipt from the click to the answer, when nothing else happens in
\* between: the interval is set and cleared, analyzing and progress end as
\* they began
analyzeReceipt(hasApiKey, gemini, parsed) ==
    /\ upload.file.present
    /\ ~analysis.analyzing
    /\ AnalysisAnswered(upload.file, hasApiKey, gemini, parsed)
    /\ analysis' = [analysis EXCEPT !.analyzing = FALSE, !.progress = 0]
    /\ UNCHANGED <<rlVars, navVars, ebVars, txVars, dbVars, sessions, authVars>>

\* analyzeReceipt up to the await of supabase.functions.invoke: setAnalyzing(true),
\* setProgress(0), setInterval; the button is disabled while analyzing
analyzeReceiptStart ==
    /\ upload.file.present
    /\ ~analysis.analyzing
    /\ analysis.timers < MaxTimers
    /\ analysis' = [analyzing |-> TRUE, progress |-> 0,
                    timers |-> analysis.timers + 1, file |-> upload.file]
    /\ UNCHANGED <<rlVars, navVars, ebVars, txVars, arVars, dbVars, uiVars, authVars,
                   upload>>

\* the interval fires: setProgress(prev => Math.min(prev + 10, 90))
ProgressTick ==
    /\ analysis.timers > 0
    /\ analysis' = [analysis EXCEPT !.progress = IF @ + 10 < 90 THEN @ + 10 ELSE 90]
    /\ UNCHANGED <<rlVars, navVars, ebVars, txVars, arVars, dbVars, uiVars, authVars,
                   upload>>

\* analyzeReceipt from the end of the await: invoke has answered, and
\* clearInterval and setProgress(100) run before the result is looked at, or
\* invoke has thrown or rejected, which goes to catch; finally ends both
analyzeReceiptEnd(invokeThrows, hasApiKey, gemini, parsed) ==
    /\ analysis.analyzing
    /\ IF invokeThrows
       THEN /\ analysis' = [analysis EXCEPT !.analyzing = FALSE, !.progress = 0,
                                            !.file = NoFile]
            /\ lastOp' = Op("analyzeReceipt", Null, 0, "error")
            /\ UNCHANGED <<arVars, upload>>
       ELSE /\ analysis' = [analyzing |-> FALSE, progress |-> 0,
                            timers |-> analysis.timers - 1, file |-> NoFile]
            /\ AnalysisAnswered(analysis.file, hasApiKey, gemini, parsed)
    /\ UNCHANGED <<rlVars, navVars, ebVars, txVars, dbVars, sessions, authVars>>

\* the texts typed into a field of the form
TypedValues(name) ==
    IF name \in {"amount_gross", "amount_net", "tax_vat"} THEN {"100"} ELSE {}

\* onChange of a field of the form
handleFieldChange(name, value) ==
    /\ upload.formData[name] # value
    /\ upload' = [upload EXCEPT !.formData[name] = value]
    /\ UNCHANGED analysis
    /\ UNCHANGED <<rlVars, navVars, ebVars, txVars, arVars, dbVars, uiVars, authVars>>

\* the button "Limpiar Formulario"
ClearForm ==
    /\ upload.formData # EmptyForm \/ upload.extractedData.present
    /\ upload' = Upload(upload.file, NoExtractedData, EmptyForm)
    /\ UNCHANGED analysis
    /\ UNCHANGED <<rlVars, navVars, ebVars, txVars, arVars, dbVars, uiVars, authVars>>

\* saveExpense on the page as it stands; a saved expense resets the page
SaveExpenseOnPage(uid, failAt) ==
    /\ saveExpense(uid, upload.formData, upload.file.present,
                   upload.extractedData.present, failAt)
    /\ upload' = IF lastOp'.outcome = "ok"
                 THEN Upload(NoFile, NoExtractedData, EmptyForm)
                 ELSE upload
    /\ UNCHANGED analysis

UploadInit ==
    /\ upload = Upload(NoFile, NoExtractedData, EmptyForm)
    /\ analysis = NoAnalysis

UploadNext ==
    \/ \E selectedFile \in SelectableFiles : handleFileSelect(selectedFile)
    \/ \E in \in UploadAnalysisInputs :
          analyzeReceipt(in.hasApiKey, in.gemini, in.parsed)
    \/ \E name \in DOMAIN EmptyForm : \E value \in TypedValues(name) :
          handleFieldChange(name, value)
    \/ ClearForm
    \/ \E uid \in UserIds, failAt \in SaveFailures : SaveExpenseOnPage(uid, failAt)

\* the answers of the function by kind: a result, an error result, an HTTP
\* error of the AI
ProgressInputs ==
    { in \in UploadAnalysisInputs :
         \/ ~in.hasApiKey /\ in.gemini = "http_error"
         \/ in.hasApiKey /\ in.gemini = "no_text"
         \/ in.gemini = "json" /\ in.parsed.tax_vat = JNum(17360)
                               /\ in.parsed.amount_net = JNum(82640) }

\* the analysis of a receipt with its progress timer
ProgressNext ==
    \/ \E selectedFile \in SelectableFiles : handleFileSelect(selectedFile)
    \/ analyzeReceiptStart
    \/ ProgressTick
    \/ \E invokeThrows \in BOOLEAN, in \in ProgressInputs :
          analyzeReceiptEnd(invokeThrows, in.hasApiKey, in.gemini, in.parsed)

(***************************************************************************)
(* The Expenses page, open in browser tabs                                  *)
(***************************************************************************)
Tabs == {"tab1", "tab2"}

RejectionReasons == {"", "  ", "duplicate"}

\* the state of the page after mounting, before the list arrives
InitialSession ==
    [ profile |-> Null, expenses |-> EmptyMap, selectedExpense |-> 0,
      showRejectDialog |-> FALSE, rejectionReason |-> "" ]

\* what loadExpenses puts in the page's list for user uid: id -> status
LoadedExpenses(uid, table) ==
    LET visible == { i \in DOMAIN table :
                        /\ ExpensesSelectUsing(uid, table[i])
                        /\ get_current_user_role(uid) = "EMPLOYEE"
                              => table[i].employee_id = uid }
    IN  [i \in visible |-> table[i].status]

\* the approve and reject buttons of a row of the list
ButtonsShown(tab, id) ==
    /\ sessions[tab].profile # Null
    /\ id \in DOMAIN sessions[tab].expenses
    /\ get_current_user_role(sessions[tab].profile) = "ADMIN"
    /\ sessions[tab].expenses[id] = "PENDING"
    /\ ~sessions[tab].showRejectDialog

\* the page is opened or reloaded in a tab where uid is signed in: checkUser,
\* then loadExpenses
MountExpenses(tab, uid) ==
    /\ sessions' = [sessions EXCEPT ![tab] =
                       [InitialSession EXCEPT !.profile = uid,
                                              !.expenses = LoadedExpenses(uid, expenses)]]
    /\ lastOp' = Op("loadExpenses", uid, 0, "ok")
    /\ UNCHANGED <<rlVars, navVars, ebVars, txVars, arVars, dbVars, authVars, upVars>>

\* a click on the approve button of row id: approveExpense and its loadExpenses
ApproveExpense(tab, id, backendUp) ==
    /\ ButtonsShown(tab, id)
    /\ RoomForUpdate
    /\ LET uid == sessions[tab].profile
           res == DbUpdateExpense(uid, id, [status |-> "APPROVED", approver_id |-> uid])
       IN  IF ~backendUp \/ res.outcome = "rls_error"
           THEN /\ lastOp' = Op("approveExpense", uid, id, "error")
                /\ UNCHANGED <<dbVars, sessions>>
           ELSE /\ lastOp' = Op("approveExpense", uid, id, res.outcome)
                /\ expenses' = res.expenses
                /\ audit_logs' = res.audit_logs
                /\ sessions' = [sessions EXCEPT ![tab].expenses =
                                   LoadedExpenses(uid, res.expenses)]
                /\ UNCHANGED <<profiles, files, storageObjects>>
    /\ UNCHANGED <<rlVars, navVars, ebVars, txVars, arVars, authVars, upVars>>

\* a click on the reject button of row id
OpenRejectDialog(tab, id) ==
    /\ ButtonsShown(tab, id)
    /\ sessions' = [sessions EXCEPT ![tab].selectedExpense = id,
                                    ![tab].showRejectDialog = TRUE]
    /\ UNCHANGED <<rlVars, navVars, ebVars, txVars, arVars, dbVars, lastOp, authVars, upVars>>

\* typing in the reason field of the dialog
SetRejectionReason(tab, text) ==
    /\ sessions[tab].showRejectDialog
    /\ sessions[tab].rejectionReason # text
    /\ sessions' = [sessions EXCEPT ![tab].rejectionReason = text]
    /\ UNCHANGED <<rlVars, navVars, ebVars, txVars, arVars, dbVars, lastOp, authVars, upVars>>

\* the Cancelar button of the dialog
CancelReject(tab) ==
    /\ sessions[tab].showRejectDialog
    /\ sessions' = [sessions EXCEPT ![tab].rejectionReason = "",
                                    ![tab].selectedExpense = 0,
                                    ![tab].showRejectDialog = FALSE]
    /\ UNCHANGED <<rlVars, navVars, ebVars, txVars, arVars, dbVars, lastOp, authVars, upVars>>

\* the "Rechazar Gasto" button of the dialog: rejectExpense and its loadExpenses;
\* the button is an AlertDialogAction, which closes the dialog whatever the
\* handler does
RejectExpense(tab, backendUp) ==
    LET me  == sessions[tab]
        uid == me.profile
    IN  /\ me.showRejectDialog
        /\ RoomForUpdate
        /\ IF me.selectedExpense = 0 \/ Trim(me.rejectionReason) = ""
           THEN /\ lastOp' = Op("rejectExpense", uid, me.selectedExpense, "no_reason")
                /\ sessions' = [sessions EXCEPT ![tab].showRejectDialog = FALSE]
                /\ UNCHANGED dbVars
           ELSE LET res == DbUpdateExpense(uid, me.selectedExpense,
                              [status |-> "REJECTED", approver_id |-> uid,
                               rejection_reason |-> me.rejectionReason])
                IN  IF ~backendUp \/ res.outcome = "rls_error"
                    THEN /\ lastOp' = Op("rejectExpense", uid, me.selectedExpense, "error")
                         /\ sessions' = [sessions EXCEPT ![tab].showRejectDialog = FALSE]
                         /\ UNCHANGED dbVars
                    ELSE /\ lastOp' = Op("rejectExpense", uid, me.selectedExpense,
                                         res.outcome)
                         /\ expenses' = res.expenses
                         /\ audit_logs' = res.audit_logs
                         /\ sessions' = [sessions EXCEPT ![tab] =
                               [ profile |-> uid,
                                 expenses |-> LoadedExpenses(uid, res.expenses),
                                 selectedExpense |-> 0,
                                 showRejectDialog |-> FALSE,
                                 rejectionReason |-> "" ]]
                         /\ UNCHANGED <<profiles, files, storageObjects>>
        /\ UNCHANGED <<rlVars, navVars, ebVars, txVars, arVars, authVars, upVars>>

UiInit ==
    /\ sessions = [tab \in Tabs |-> InitialSession]
    /\ lastOp = NoOp

ExpensesPageStep ==
    \E tab \in Tabs :
        \/ \E uid \in UserIds : MountExpenses(tab, uid)
        \/ \E id \in 1..MaxExpenses, backendUp \in BOOLEAN :
              ApproveExpense(tab, id, backendUp)
        \/ \E id \in 1..MaxExpenses : OpenRejectDialog(tab, id)
        \/ \E text \in RejectionReasons : SetRejectionReason(tab, text)
        \/ CancelReject(tab)
        \/ \E backendUp \in BOOLEAN : RejectExpense(tab, backendUp)

(***************************************************************************)
(* Statements sent to the database API directly, outside the pages         *)
(***************************************************************************)
Statuses == {"PENDING", "APPROVED", "REJECTED"}

\* PATCH /expenses?id=eq.id with a new status, by any signed-in user
ApiUpdateExpenseStatus(uid, id, status) ==
    /\ RoomForUpdate
    /\ LET res == DbUpdateExpense(uid, id, [status |-> status])
       IN  /\ lastOp' = Op("api_update_expense", uid, id, res.outcome)
           /\ expenses' = res.expenses
           /\ audit_logs' = res.audit_logs
    /\ UNCHANGED <<rlVars, navVars, ebVars, txVars, arVars, profiles, files, storageObjects, sessions, authVars, upVars>>

\* POST /expenses with a row of the sender's choice, by any signed-in user
ApiInsertExpense(uid, employee_id, status) ==
    /\ RoomForInsert
    /\ LET res == DbInsertExpense(uid,
                     [ employee_id |-> employee_id, amount_net |-> Num(100000),
                       tax_vat |-> Num(21000), amount_gross |-> Num(121000),
                       receipt_file_id |-> 0, source |-> "MANUAL",
                       status |-> status, approver_id |-> Null,
                       rejection_reason |-> Null ])
       IN  /\ lastOp' = Op("api_insert_expense", uid, res.id, res.outcome)
           /\ expenses' = res.expenses
           /\ audit_logs' = res.audit_logs
    /\ UNCHANGED <<rlVars, navVars, ebVars, txVars, arVars, profiles, files, storageObjects, sessions, authVars, upVars>>

\* DELETE /expenses?id=eq.id, by any signed-in user
ApiDeleteExpense(uid, id) ==
    /\ RoomForUpdate
    /\ LET res == DbDeleteExpense(uid, id)
       IN  /\ lastOp' = Op("api_delete_expense", uid, id, res.outcome)
           /\ expenses' = res.expenses
           /\ audit_logs' = res.audit_logs
    /\ UNCHANGED <<rlVars, navVars, ebVars, txVars, arVars, profiles, files, storageObjects, sessions, authVars, upVars>>

\* POST /audit_logs with a row naming actor as its actor, by any signed-in user
ApiInsertAuditLog(uid, actor) ==
    /\ Len(audit_logs) < MaxAuditRows
    /\ LET row == [ actor_user_id |-> actor, entity |-> "expenses", entity_id |-> 1,
                    action |-> "NOTE", old_status |-> Null, new_status |-> Null,
                    amount |-> JNull ]
       IN  IF AuditLogsInsertCheck(uid, row)
           THEN /\ audit_logs' = Append(audit_logs, row)
                /\ lastOp' = Op("api_insert_audit", uid, Len(audit_logs) + 1, "ok")
           ELSE /\ audit_logs' = audit_logs
                /\ lastOp' = Op("api_insert_audit", uid, 0, "rls_error")
    /\ UNCHANGED <<rlVars, navVars, ebVars, txVars, arVars, profiles, expenses, files, storageObjects, sessions, authVars, upVars>>

\* PATCH /audit_logs?id=eq.(row n) rewriting its action, by any signed-in user
ApiUpdateAuditLog(uid, n) ==
    /\ n \in 1..Len(audit_logs)
    /\ IF AuditLogsUpdateUsing(uid, audit_logs[n])
       THEN /\ audit_logs' = [audit_logs EXCEPT ![n].action = "REWRITTEN"]
            /\ lastOp' = Op("api_update_audit", uid, n, "ok")
       ELSE /\ audit_logs' = audit_logs
            /\ lastOp' = Op("api_update_audit", uid, n, "no_rows")
    /\ UNCHANGED <<rlVars, navVars, ebVars, txVars, arVars, profiles, expenses, files, storageObjects, sessions, authVars, upVars>>

\* DELETE /audit_logs?id=eq.(row n), by any signed-in user
ApiDeleteAuditLog(uid, n) ==
    /\ n \in 1..Len(audit_logs)
    /\ IF AuditLogsDeleteUsing(uid, audit_logs[n])
       THEN /\ audit_logs' = SubSeq(audit_logs, 1, n - 1)
                                \o SubSeq(audit_logs, n + 1, Len(audit_logs))
            /\ lastOp' = Op("api_delete_audit", uid, n, "ok")
       ELSE /\ audit_logs' = audit_logs
            /\ lastOp' = Op("api_delete_audit", uid, n, "no_rows")
    /\ UNCHANGED <<rlVars, navVars, ebVars, txVars, arVars, profiles, expenses, files, storageObjects, sessions, authVars, upVars>>

ApiStep ==
    \E uid \in UserIds :
        \/ \E id \in 1..MaxExpenses, status \in Statuses :
              ApiUpdateExpenseStatus(uid, id, status)
        \/ \E employee_id \in UserIds, status \in Statuses :
              ApiInsertExpense(uid, employee_id, status)
        \/ \E id \in 1..MaxExpenses : ApiDeleteExpense(uid, id)
        \/ \E actor \in UserIds : ApiInsertAuditLog(uid, actor)
        \/ \E n \in 1..MaxAuditRows : ApiUpdateAuditLog(uid, n)
        \/ \E n \in 1..MaxAuditRows : ApiDeleteAuditLog(uid, n)

(***************************************************************************)
(* The Auth page: the sign-up form, and ClientRateLimiter                  *)
(***************************************************************************)
\* ClientRateLimiter.configs.auth
AuthLimit == [maxRequests |-> 3, windowMs |-> 300000]

ClientIsAllowed_AtLimit(storage, endpoint, config, t) ==
    IF endpoint \notin DOMAIN storage \/ t > storage[endpoint].resetTime
    THEN [allowed |-> TRUE,
          storage |-> MapSet(storage, endpoint,
                             [count |-> 1, resetTime |-> t + config.windowMs])]
    ELSE IF storage[endpoint].count <= config.maxRequests
    THEN [allowed |-> TRUE,
          storage |-> [storage EXCEPT ![endpoint].count = @ + 1]]
    ELSE [allowed |-> FALSE, storage |-> storage]

\* ClientRateLimiter.isAllowed at time t: the answer and the storage it leaves
ClientIsAllowed(storage, endpoint, config, t) ==
    IF endpoint \notin DOMAIN storage \/ t > storage[endpoint].resetTime
    THEN [allowed |-> TRUE,
          storage |-> MapSet(storage, endpoint,
                             [count |-> 1, resetTime |-> t + config.windowMs])]
    ELSE IF storage[endpoint].count < config.maxRequests
    THEN [allowed |-> TRUE,
          storage |-> [storage EXCEPT ![endpoint].count = @ + 1]]
    ELSE [allowed |-> FALSE, storage |-> storage]

\* ClientRateLimiter.getRemainingTime at time t
getRemainingTime(storage, endpoint, t) ==
    IF endpoint \notin DOMAIN storage THEN 0
    ELSE Max(0, storage[endpoint].resetTime - t)

\* the texts typed into the password fields; a text is its UTF-16 code units,
\* which is what String.length counts
Passwords == {"", "abc12", "abc123", "abc1234"}

PasswordTooShort_Five(password) == Len(password) < 5

\* formData.password.length < 6
PasswordTooShort(password) == Len(password) < 6

SignUp(submitted, password, confirmPassword, networkCall, error) ==
    [ submitted |-> submitted, password |-> password,
      confirmPassword |-> confirmPassword, networkCall |-> networkCall,
      error |-> error ]

\* what supabase.auth.signUp can answer
SignUpAnswers == {"confirm_email", "session", "error", "throw"}

\* the message handleSignUp shows for an error the backend returns
ShownSignUpError(message) ==
    IF message = "User already registered"
    THEN "Ya existe una cuenta con este email"
    ELSE message

ShownSignInError_Generic(message) ==
    IF message = "Invalid login credentials"
    THEN "Email o contraseña incorrectos"
    ELSE "Error inesperado. Por favor, inténtalo de nuevo."

\* the message handleSignIn shows for an error the backend returns
ShownSignInError(message) ==
    IF message = "Invalid login credentials"
    THEN "Email o contraseña incorrectos"
    ELSE message

\* what supabase.auth.signInWithPassword can answer: a session, an error of
\* the backend with its message, or an exception
SignInAnswers ==
    {"session", "Invalid login credentials", "Email not confirmed", "throw"}

\* handleInputChange on one field of the form
handleInputChange(name, value) ==
    /\ authFormData[name] # value
    /\ authFormData' = [authFormData EXCEPT ![name] = value]
    /\ authError' = ""
    /\ UNCHANGED <<rlVars, navVars, ebVars, txVars, arVars, dbVars, uiVars, upVars, clientStorage, lastSignUp,
                 signInWindow>>

\* handle_new_user(), the trigger on auth.users as the last migration leaves
\* it: the profile row of a new user, whose sign-up carried the role metaRole
\* in raw_user_meta_data
handle_new_user(metaRole) == [role |-> "ADMIN", status |-> "ACTIVE"]

\* handleSignUp: the form is submitted; answer is what the backend says when
\* the call is made and the email is not registered yet.  The email typed is
\* the same throughout, and sanitizeInput leaves it as it is.
handleSignUp(answer) ==
    LET password == authFormData.password
        confirm  == authFormData.confirmPassword
        rl       == ClientIsAllowed(clientStorage, "/auth/signup", AuthLimit, now)
        minutes  == CeilDiv(getRemainingTime(clientStorage, "/auth/signup", now),
                            60000)
        Refuse(msg) ==
            /\ authError' = msg
            /\ lastSignUp' = SignUp(TRUE, password, confirm, FALSE, msg)
            /\ UNCHANGED <<clientStorage, profiles>>
        Answer(msg, created) ==
            /\ authError' = msg
            /\ lastSignUp' = SignUp(TRUE, password, confirm, TRUE, msg)
            /\ clientStorage' = rl.storage
            /\ profiles' = IF created
                           THEN MapSet(profiles, authFormData.email,
                                       handle_new_user("EMPLOYEE"))
                           ELSE profiles
    IN  /\ IF password # confirm
           THEN Refuse("Las contraseñas no coinciden")
           ELSE IF PasswordTooShort(password)
           THEN Refuse("La contraseña debe tener al menos 6 caracteres")
           ELSE IF ~rl.allowed
           THEN Refuse("Demasiados intentos de registro. Intenta en "
                          \o ToString(minutes) \o " minutos.")
           ELSE IF answer = "throw"
           THEN Answer("Error inesperado. Por favor, inténtalo de nuevo.", FALSE)
           ELSE IF authFormData.email \in DOMAIN profiles
           THEN Answer(ShownSignUpError("User already registered"), FALSE)
           ELSE IF answer = "error"
           THEN Answer(ShownSignUpError("Signup is disabled"), FALSE)
           ELSE Answer("", TRUE)
        /\ UNCHANGED <<rlVars, navVars, ebVars, txVars, arVars, expenses, files, audit_logs, storageObjects,
                       uiVars, upVars, authFormData, signInWindow>>

\* no sign-in call has reached the backend yet
NoSignInWindow == [start |-> -1, calls |-> 0]

\* supabase.auth.signInWithPassword is called at time t: the call falls into
\* the 5-minute window running since an earlier call, or starts a window
SignInCallAt(window, t) ==
    IF window.calls > 0 /\ t <= window.start + AuthLimit.windowMs
    THEN [window EXCEPT !.calls = @ + 1]
    ELSE [start |-> t, calls |-> 1]

\* handleSignIn: the form is submitted; answer is what the backend says when
\* the call is made
handleSignIn(answer) ==
    LET rl      == ClientIsAllowed(clientStorage, "/auth/signin", AuthLimit, now)
        minutes == CeilDiv(getRemainingTime(clientStorage, "/auth/signin", now),
                           60000)
    IN  /\ IF ~rl.allowed
           THEN /\ authError' = "Demasiados intentos de login. Intenta en "
                                    \o ToString(minutes) \o " minutos."
                /\ UNCHANGED <<clientStorage, signInWindow>>
           ELSE /\ clientStorage' = rl.storage
                /\ signInWindow' = SignInCallAt(signInWindow, now)
                /\ authError' =
                      CASE answer = "throw" ->
                             "Error inesperado. Por favor, inténtalo de nuevo."
                        [] answer = "session" -> ""
                        [] OTHER -> ShownSignInError(answer)
        /\ UNCHANGED <<rlVars, navVars, ebVars, txVars, arVars, dbVars, uiVars, upVars, authFormData,
                       lastSignUp>>

AuthInit ==
    /\ authFormData = [email |-> "ana@example.com", password |-> "",
                       confirmPassword |-> ""]
    /\ authError = ""
    /\ clientStorage = EmptyMap
    /\ lastSignUp = SignUp(FALSE, "", "", FALSE, "")
    /\ signInWindow = NoSignInWindow

AuthStep ==
    \/ \E value \in Passwords :
          \/ handleInputChange("password", value)
          \/ handleInputChange("confirmPassword", value)
    \/ \E answer \in SignUpAnswers : handleSignUp(answer)

SignInStep == \E answer \in SignInAnswers : handleSignIn(answer)

\* the two forms of the page with one password typed
AuthErrorsNext ==
    \/ Tick
    \/ handleInputChange("password", "abc123")
    \/ handleInputChange("confirmPassword", "abc123")
    \/ \E answer \in SignUpAnswers : handleSignUp(answer)
    \/ SignInStep

AuthNext == Tick \/ AuthStep

(***************************************************************************)
(* App: the routes.  /landing and /auth are public, every other path goes   *)
(* through ProtectedRoutes to AppLayout.                                    *)
(***************************************************************************)
PublicPaths == {"/landing", "/auth"}

\* the pages of AppLayout by path; any other path is NotFound
AppPages ==
    ( "/dashboard" :> "Dashboard" ) @@ ( "/expenses" :> "Expenses" ) @@
    ( "/upload" :> "UploadExpense" ) @@ ( "/analytics" :> "Analytics" ) @@
    ( "/settings" :> "Settings" ) @@ ( "/employees" :> "Employees" )

\* the paths a user asks for
Paths == PublicPaths \cup DOMAIN AppPages \cup {"/", "/non-existent-route"}

\* useAuth while ProtectedRoutes is not mounted
NotMounted == [mounted |-> FALSE, user |-> Null, loading |-> TRUE]

AuthState(user, loading) == [mounted |-> TRUE, user |-> user, loading |-> loading]

\* what is on the screen: the page and, when <Navigate> brought the user to it,
\* the path the user had asked for
Screen(page, from) == [page |-> page, from |-> from]

Rendered(path, auth, what) == [location |-> path, useAuth |-> auth, screen |-> what]

\* <AppLayout />: the page of the path, "/" replaced by "/dashboard"
AppLayout(path, auth) ==
    LET to == IF path = "/" THEN "/dashboard" ELSE path
    IN  Rendered(to, auth,
                 Screen(IF to \in DOMAIN AppPages THEN AppPages[to] ELSE "NotFound",
                        IF to = path THEN "" ELSE path))

ProtectedRoutes_NoUserCheck(path, auth) ==
    IF auth.loading THEN Rendered(path, auth, Screen("Cargando...", ""))
    ELSE AppLayout(path, auth)

\* ProtectedRoutes: "Cargando..." while loading, <Navigate to="/auth" replace />
\* without a user, <AppLayout /> otherwise
ProtectedRoutes(path, auth) ==
    IF auth.loading THEN Rendered(path, auth, Screen("Cargando...", ""))
    ELSE IF auth.user = Null THEN Rendered("/auth", NotMounted, Screen("Auth", path))
    ELSE AppLayout(path, auth)

\* <Routes> of App at path; auth is the useAuth state of ProtectedRoutes, which
\* starts at (no user, loading) when ProtectedRoutes is mounted
Routes(path, auth) ==
    IF path = "/landing" THEN Rendered(path, NotMounted, Screen("Landing", ""))
    ELSE IF path = "/auth" THEN Rendered(path, NotMounted, Screen("Auth", ""))
    ELSE ProtectedRoutes(path, IF auth.mounted THEN auth ELSE AuthState(Null, TRUE))

\* the location, the hook and the screen after the routes have rendered
Render(path, auth) ==
    LET r == Routes(path, auth)
    IN  /\ location' = r.location
        /\ useAuth' = r.useAuth
        /\ screen' = r.screen

NavFrame == UNCHANGED <<rlVars, arVars, dbVars, uiVars, authVars, upVars, ebVars, txVars>>

\* the browser loads the app at a path
Goto(path) ==
    /\ Render(path, NotMounted)
    /\ UNCHANGED storedSession
    /\ NavFrame

\* a link or navigate() inside the running app
LinkTo(path) ==
    /\ path # location
    /\ screen.page # "Cargando..."
    /\ Render(path, useAuth)
    /\ UNCHANGED storedSession
    /\ NavFrame

\* useAuth: getSession() has answered, loading ends
GetSessionResolved ==
    /\ useAuth.mounted /\ useAuth.loading
    /\ Render(location, AuthState(storedSession, FALSE))
    /\ UNCHANGED storedSession
    /\ NavFrame

\* useAuth: the onAuthStateChange listener is called with the session; it may
\* or may not end loading
AuthStateChange(endsLoading) ==
    /\ useAuth.mounted
    /\ useAuth.user # storedSession
    /\ Render(location, AuthState(storedSession, useAuth.loading /\ ~endsLoading))
    /\ UNCHANGED storedSession
    /\ NavFrame

\* handleSignIn succeeds on the Auth page: the session is stored and the page
\* calls navigate('/dashboard')
SignedIn(uid) ==
    /\ screen.page = "Auth"
    /\ storedSession' = uid
    /\ Render("/dashboard", NotMounted)
    /\ NavFrame

\* the session ends: sign-out or expiry
SessionEnded ==
    /\ storedSession # Null
    /\ storedSession' = Null
    /\ UNCHANGED <<location, useAuth, screen>>
    /\ NavFrame

\* Dashboard checkUser: without a session, navigate('/auth')
DashboardCheckUser ==
    /\ screen.page = "Dashboard"
    /\ storedSession = Null
    /\ Render("/auth", useAuth)
    /\ UNCHANGED storedSession
    /\ NavFrame

NavInit ==
    /\ location = "/landing"
    /\ useAuth = NotMounted
    /\ storedSession = Null
    /\ screen = Screen("Landing", "")

NavNext ==
    \/ \E path \in Paths : Goto(path)
    \/ \E path \in Paths : LinkTo(path)
    \/ GetSessionResolved
    \/ \E endsLoading \in BOOLEAN : AuthStateChange(endsLoading)
    \/ \E uid \in UserIds : SignedIn(uid)
    \/ SessionEnded
    \/ DashboardCheckUser

(***************************************************************************)
(* ErrorBoundary: wraps the whole app; a render error of a child replaces   *)
(* the children by the fallback                                             *)
(***************************************************************************)
\* the errors a child can throw while rendering
RenderErrors == {"TypeError", "RangeError"}

\* the state of a new ErrorBoundary
BoundaryState == [hasError |-> FALSE, error |-> Null, errorInfo |-> Null]

getDerivedStateFromError_NoFlag(error) ==
    [hasError |-> FALSE, error |-> error, errorInfo |-> Null]

getDerivedStateFromError(error) ==
    [hasError |-> TRUE, error |-> error, errorInfo |-> Null]

\* componentDidCatch: setState({ error, errorInfo })
componentDidCatch(state, error, errorInfo) ==
    [state EXCEPT !.error = error, !.errorInfo = errorInfo]

\* errorInfo.componentStack of an error
ComponentStack(error) == "at Child: " \o error

\* render(): the fallback in the error state, the children otherwise
BoundaryShows(state) == IF state.hasError THEN "ErrorFallback" ELSE "children"

NewBoundary == [instance |-> 0, resets |-> 0]

EbFrame == UNCHANGED <<rlVars, arVars, dbVars, uiVars, authVars, upVars, txVars>>

\* a child throws while rendering: getDerivedStateFromError, then
\* componentDidCatch; the children, the routes among them, are unmounted
ChildThrows(error) ==
    /\ ~errorBoundary.hasError
    /\ errorBoundary' = componentDidCatch(getDerivedStateFromError(error), error,
                                          ComponentStack(error))
    /\ IF BoundaryShows(errorBoundary') = "ErrorFallback"
       THEN /\ useAuth' = NotMounted
            /\ screen' = Screen("ErrorFallback", "")
       ELSE UNCHANGED <<useAuth, screen>>
    /\ UNCHANGED <<location, storedSession, boundaryLife>>
    /\ EbFrame

\* handleReset ("Reintentar"): the state is cleared and the children are
\* mounted again at the current location
handleReset ==
    /\ BoundaryShows(errorBoundary) = "ErrorFallback"
    /\ boundaryLife.resets < MaxResets
    /\ errorBoundary' = [hasError |-> FALSE, error |-> Null, errorInfo |-> Null]
    /\ boundaryLife' = [boundaryLife EXCEPT !.resets = @ + 1]
    /\ Render(location, NotMounted)
    /\ UNCHANGED storedSession
    /\ EbFrame

\* handleReload ("Recargar Página"): window.location.reload() loads the app
\* again at the current location; what the page held in memory is gone, the
\* stored session stays
handleReload ==
    /\ BoundaryShows(errorBoundary) = "ErrorFallback"
    /\ boundaryLife.instance < MaxPageLoads
    /\ errorBoundary' = BoundaryState
    /\ boundaryLife' = [instance |-> boundaryLife.instance + 1, resets |-> 0]
    /\ Render(location, NotMounted)
    /\ authFormData' = [email |-> authFormData.email, password |-> "",
                        confirmPassword |-> ""]
    /\ authError' = ""
    /\ clientStorage' = EmptyMap
    /\ signInWindow' = NoSignInWindow
    /\ upload' = Upload(NoFile, NoExtractedData, EmptyForm)
    /\ analysis' = NoAnalysis
    /\ UNCHANGED <<storedSession, lastSignUp, rlVars, arVars, dbVars, uiVars, txVars>>

EbInit ==
    /\ errorBoundary = BoundaryState
    /\ boundaryLife = NewBoundary

\* the children are on the screen only outside the error state
ChildrenStep ==
    /\ BoundaryShows(errorBoundary) = "children"
    /\ \/ \E path \in Paths : LinkTo(path)
       \/ GetSessionResolved
       \/ \E endsLoading \in BOOLEAN : AuthStateChange(endsLoading)
       \/ \E uid \in UserIds : SignedIn(uid)
       \/ DashboardCheckUser

EbNext ==
    \/ \E error \in RenderErrors : ChildThrows(error)
    \/ handleReset
    \/ handleReload
    \/ ChildrenStep
    \/ SessionEnded


(***************************************************************************)
(* public.profiles: UPDATE under the policies and the trigger               *)
(* validate_profile_role.  A request is one transaction at READ COMMITTED:  *)
(* the statement sees what is committed, writes the row, and commits later. *)
(***************************************************************************)
\* policies FOR UPDATE on profiles: "Admins can update all profiles" or
\* "Users can update their own profile"
ProfilesUpdateUsing(uid, id, rows) == rows[uid].role = "ADMIN" \/ uid = id

\* validate_user_role() BEFORE UPDATE of row id from old to new, run for uid;
\* rows is what its queries see.  "ok" or the exception raised.
validate_user_role(uid, id, old, new, rows) ==
    IF old.role # new.role /\ rows[uid].role # "ADMIN"
    THEN "Solo los administradores pueden cambiar roles de usuario"
    ELSE IF /\ new.role # "ADMIN"
            /\ Cardinality({p \in DOMAIN rows \ {id} : rows[p].role = "ADMIN"}) < 1
    THEN "Debe existir al menos un administrador en el sistema"
    ELSE "ok"

NoRow == [role |-> Null, status |-> Null]

ProfileTx(state, id, new) == [state |-> state, id |-> id, new |-> new]

NoTx == ProfileTx("none", Null, NoRow)

\* the role changes an UPDATE of profiles can ask for
ProfilePatches(row) ==
    { [row EXCEPT !.role = r] : r \in {"ADMIN", "EMPLOYEE"} \ {row.role} }

TxFrame ==
    UNCHANGED <<rlVars, arVars, expenses, files, audit_logs, storageObjects,
                uiVars, authVars, upVars, navVars, ebVars>>

\* supabase.from('profiles').update(...).eq('id', id) of user uid reaches the
\* database: the policies select the row, the trigger runs, the new row is
\* written; another transaction's uncommitted row is locked
ProfileUpdate(uid, id, new) ==
    /\ profileTx[uid].state # "pending"
    /\ \A other \in DOMAIN profileTx :
          profileTx[other].state = "pending" => profileTx[other].id # id
    /\ profileTx' =
          [profileTx EXCEPT ![uid] =
              IF ~ProfilesUpdateUsing(uid, id, profiles)
              THEN ProfileTx("no_rows", id, new)
              ELSE IF validate_user_role(uid, id, profiles[id], new, profiles) # "ok"
              THEN ProfileTx("rejected", id, new)
              ELSE ProfileTx("pending", id, new)]
    /\ UNCHANGED profiles
    /\ TxFrame

\* toggleEmployeeStatus of the Employees page
toggleEmployeeStatus(uid, employeeId) ==
    ProfileUpdate(uid, employeeId,
                  [profiles[employeeId] EXCEPT
                      !.status = IF @ = "ACTIVE" THEN "INACTIVE" ELSE "ACTIVE"])

\* the transaction of uid commits
ProfileCommit(uid) ==
    /\ profileTx[uid].state = "pending"
    /\ profiles' = [profiles EXCEPT ![profileTx[uid].id] = profileTx[uid].new]
    /\ profileTx' = [profileTx EXCEPT ![uid].state = "committed"]
    /\ TxFrame

TxInit == profileTx = [uid \in UserIds |-> NoTx]

ProfilesNext ==
    \/ \E uid \in UserIds, id \in UserIds :
          \E new \in ProfilePatches(profiles[id]) : ProfileUpdate(uid, id, new)
    \/ \E uid \in UserIds, employeeId \in UserIds :
          toggleEmployeeStatus(uid, employeeId)
    \/ \E uid \in UserIds : ProfileCommit(uid)


(***************************************************************************)
(* Specifications: one per subsystem                                        *)
(***************************************************************************)
ArInit ==
    /\ arResponse = ArNoResponse
    /\ arRequest = ArRequested(FALSE, FileInput(FALSE, FALSE, "", 0), "json", NoData)

\* the subsystems a specification leaves alone stay as constructed
RateLimiterInit == RlInit /\ ArInit /\ DbInit /\ UiInit /\ AuthInit /\ UploadInit /\ NavInit /\ EbInit /\ TxInit

SpecRateLimiter == RateLimiterInit /\ [][RlNext]_vars

IdleInit == RlIdle /\ ArInit /\ DbInit /\ UiInit /\ AuthInit /\ UploadInit /\ NavInit /\ EbInit /\ TxInit

SpecAnalyzeReceipt == IdleInit /\ [][ArRequest]_vars

ExpensesNext == SaveExpenseStep \/ ExpensesPageStep

SpecExpenses == IdleInit /\ [][ExpensesNext]_vars

PolicyNext == SaveExpenseStep \/ ApiStep

SpecPolicy == IdleInit /\ [][PolicyNext]_vars

SpecAuth == IdleInit /\ [][AuthNext]_vars

SpecUpload == IdleInit /\ [][UploadNext]_vars

SpecAuthErrors == IdleInit /\ [][AuthErrorsNext]_vars

SpecErrorBoundary == IdleInit /\ [][EbNext]_vars

SpecProfiles == IdleInit /\ [][ProfilesNext]_vars

SpecProgress == IdleInit /\ [][ProgressNext]_vars

SpecNavigation == IdleInit /\ [][NavNext]_vars

Init == RlInit /\ ArInit /\ DbInit /\ UiInit /\ AuthInit /\ UploadInit /\ NavInit /\ EbInit /\ TxInit

Next ==
    \/ RlNext
    \/ ArRequest
    \/ SaveExpenseStep
    \/ ExpensesPageStep
    \/ ApiStep
    \/ AuthStep
    \/ SignInStep
    \/ UploadNext
    \/ NavNext
    \/ EbNext
    \/ ProfilesNext
    \/ ProgressNext

Spec == Init /\ [][Next]_vars

(***************************************************************************)
(* Claims about the rate limiter                                           *)
(***************************************************************************)
\* the stored entry a request shape is counted in ("no entry" as count 0)
EntryOf(store, req) ==
    IF KeyOf(req) \in DOMAIN store
    THEN store[KeyOf(req)]
    ELSE [count |-> 0, resetTime |-> 0]

\* C1: for every (client IP, endpoint) pair and every window of its key, exactly
\* maxRequests requests of the pair are allowed: a request of the pair is
\* rejected only after maxRequests requests of the pair were allowed in the
\* window, and no more than maxRequests are ever allowed in it.
C1_ExactlyMaxRequests ==
    rlResponse.status # 0 =>
        LET pair == PairOf(rlResponse.req)
            n    == ConfigFor(rlResponse.req.path).maxRequests
        IN  /\ rlResponse.status = 429 => allowedInWindow[pair] >= n
            /\ rlResponse.status = 200 => allowedInWindow[pair] <= n

\* C2: the retry-after value of every rejection (in the body and in the
\* Retry-After header) is non-negative and at most the window length, in
\* seconds, configured for the request's endpoint.
C2_RetryAfterWithinWindow ==
    rlResponse.status = 429 =>
        LET w == ConfigFor(rlResponse.req.path).windowMs
        IN  /\ 0 <= rlResponse.retryAfter
            /\ rlResponse.retryAfter * 1000 <= w
            /\ 0 <= rlResponse.retryAfterHeader
            /\ rlResponse.retryAfterHeader * 1000 <= w

\* C7: a stored expiry changes only in a step taken when the clock is past it;
\* a request for a key whose expiry has passed is allowed and leaves the entry
\* {count: 1, resetTime: now + windowMs}; a request made at or before the expiry
\* leaves the expiry as it was.
C7_WindowResetsOnlyPastExpiry ==
    [][ /\ \A k \in DOMAIN rateLimitStore :
              /\ k \in DOMAIN rateLimitStore'
              /\ rateLimitStore'[k].resetTime # rateLimitStore[k].resetTime
                    => now > rateLimitStore[k].resetTime
        /\ \A req \in clients, d1, d2 \in 0..MaxSyncDelayMs :
              (RateLimiterRequest(req, d1, d2) /\ KeyOf(req) \in DOMAIN rateLimitStore)
              => IF now > rateLimitStore[KeyOf(req)].resetTime
                 THEN /\ rlResponse'.status = 200
                      /\ rateLimitStore'[KeyOf(req)] =
                            [count |-> 1,
                             resetTime |-> now + ConfigFor(req.path).windowMs]
                 ELSE rateLimitStore'[KeyOf(req)].resetTime =
                         rateLimitStore[KeyOf(req)].resetTime
      ]_vars

\* a request has just replaced an expired entry by a new window
C7_Witness ==
    /\ rlResponse.status = 200
    /\ rlResponse.branch = "expired"
    /\ rateLimitStore[KeyOf(rlResponse.req)].count = 1
    /\ rateLimitStore[KeyOf(rlResponse.req)].resetTime > now

\* C8: a request for one (client IP, endpoint) pair leaves the stored entry of
\* every other pair as it was.
C8_PairsIndependent ==
    [][ \A req \in clients, d1, d2 \in 0..MaxSyncDelayMs :
            RateLimiterRequest(req, d1, d2)
            => \A other \in clients :
                  PairOf(other) # PairOf(req)
                  => EntryOf(rateLimitStore', other) = EntryOf(rateLimitStore, other)
      ]_vars

(***************************************************************************)
(* Claims about analyze-receipt                                            *)
(***************************************************************************)
\* C5: in every successful response whose gross amount is a finite positive
\* number, |amount_net + tax_vat - amount_gross| <= 0.01.
C5_ResultCoherent ==
    (arResponse.success /\ arResponse.data.amount_gross.t = "number"
                        /\ arResponse.data.amount_gross.v > 0)
    => LET d == arResponse.data
       IN  JsLe(JsAbs(JsSub(JsAdd(ToNumber(d.amount_net), ToNumber(d.tax_vat)),
                            ToNumber(d.amount_gross))),
                Tolerance)

(***************************************************************************)
(* Claims about expenses and the audit log                                 *)
(***************************************************************************)
\* C3: whatever the pages' handlers do, in any interleaving, the only status
\* changes of an expense are PENDING -> APPROVED and PENDING -> REJECTED.
C3_StatusOnlyLeavesPending ==
    [][ \A id \in DOMAIN expenses \cap DOMAIN expenses' :
            expenses'[id].status # expenses[id].status
            => /\ expenses[id].status = "PENDING"
               /\ expenses'[id].status \in {"APPROVED", "REJECTED"}
      ]_vars

\* C4: a step that changes an expense's status is taken by a user whose role is
\* ADMIN, and a status update sent by a user whose role is EMPLOYEE, their own
\* PENDING expense included, is refused and leaves the table as it was.
C4_OnlyAdminChangesStatus ==
    [][ /\ \A id \in DOMAIN expenses \cap DOMAIN expenses' :
              expenses'[id].status # expenses[id].status
              => get_current_user_role(lastOp'.actor) = "ADMIN"
        /\ \A uid \in UserIds, id \in DOMAIN expenses, status \in Statuses :
              ( /\ ApiUpdateExpenseStatus(uid, id, status)
                /\ get_current_user_role(uid) = "EMPLOYEE"
                /\ status # expenses[id].status )
              => /\ lastOp'.outcome \in {"rls_error", "no_rows"}
                 /\ expenses' = expenses
      ]_vars

\* an employee has just tried to change the status of their own PENDING expense
C4_Witness ==
    /\ lastOp.op = "api_update_expense"
    /\ get_current_user_role(lastOp.actor) = "EMPLOYEE"
    /\ lastOp.outcome = "rls_error"
    /\ lastOp.id \in DOMAIN expenses
    /\ expenses[lastOp.id].employee_id = lastOp.actor
    /\ expenses[lastOp.id].status = "PENDING"

\* C9: every row that appears in expenses has status PENDING and no approver,
\* and a row created by saveExpense has the signed-in user as employee_id.
C9_CreatedPending ==
    [][ \A id \in DOMAIN expenses' \ DOMAIN expenses :
            /\ expenses'[id].status = "PENDING"
            /\ expenses'[id].approver_id = Null
            /\ lastOp'.op = "saveExpense" => expenses'[id].employee_id = lastOp'.actor
      ]_vars

\* C10: every step leaves the audit rows written so far in place and unchanged
\* and adds at most one row; a step that changes the expenses table adds
\* exactly one row, which names the expense and the user.
C10_AuditAppendOnly ==
    [][ /\ Len(audit_logs') >= Len(audit_logs)
        /\ Len(audit_logs') <= Len(audit_logs) + 1
        /\ SubSeq(audit_logs', 1, Len(audit_logs)) = audit_logs
        /\ expenses' # expenses
              => /\ Len(audit_logs') = Len(audit_logs) + 1
                 /\ audit_logs'[Len(audit_logs')].entity = "expenses"
                 /\ audit_logs'[Len(audit_logs')].entity_id = lastOp'.id
                 /\ audit_logs'[Len(audit_logs')].actor_user_id = lastOp'.actor
      ]_vars

\* after an expense was created and updated, a user has just tried to delete or
\* rewrite an audit row
C10_Witness ==
    /\ lastOp.op \in {"api_delete_audit", "api_update_audit"}
    /\ Len(audit_logs) >= 2
    /\ audit_logs[1].action = "CREATE"
    /\ audit_logs[2].action = "UPDATE"

(***************************************************************************)
(* Claims about the Auth page                                              *)
(***************************************************************************)
\* C6: a sign-up submitted with a password of fewer than 6 characters, or with
\* a password that differs from its confirmation, ends with an error message
\* and without the call to the backend.
C6_SignUpRejectedClientSide ==
    ( /\ lastSignUp.submitted
      /\ \/ Len(lastSignUp.password) < 6
         \/ lastSignUp.password # lastSignUp.confirmPassword )
    => /\ ~lastSignUp.networkCall
       /\ lastSignUp.error # ""

\* a short password, typed twice alike, has just been submitted
C6_Witness ==
    /\ lastSignUp.submitted
    /\ lastSignUp.password = lastSignUp.confirmPassword
    /\ Len(lastSignUp.password) = 5
    /\ ~lastSignUp.networkCall
    /\ authError = "La contraseña debe tener al menos 6 caracteres"

(***************************************************************************)
(* The upload page                                                          *)
(***************************************************************************)
\* the receipt of the example: the AI reports gross = 100.00 and VAT = 0
ZeroVatReceipt(u) ==
    /\ u.extractedData.present
    /\ u.extractedData.reported.amount_gross = JNum(100000)
    /\ u.extractedData.reported.tax_vat = JNum(0)

\* C11: a receipt for which the AI reports gross = 100.00 and VAT = 0 yields an
\* extraction with net = 100.00 whatever net the AI reported, and saving the
\* pre-filled form, when no call of the save fails, creates an expense with
\* source AI_EXTRACTED and status PENDING
C11_ZeroVatReceiptSaved ==
    [][ /\ ZeroVatReceipt(upload') =>
            upload'.extractedData.data.amount_net = JNum(100000)
        /\ ( /\ ZeroVatReceipt(upload)
              /\ upload.formData = PrefilledForm(upload.extractedData.data)
              /\ SaveExpenseOnPage("emp1", "none") ) =>
            /\ lastOp'.outcome = "ok"
            /\ lastOp'.id \in DOMAIN expenses' \ DOMAIN expenses
            /\ expenses'[lastOp'.id].source = "AI_EXTRACTED"
            /\ expenses'[lastOp'.id].status = "PENDING" ]_vars

\* the values of a form are coherent: gross is a number above 0 and net + VAT
\* is within 0.01 of it (an empty net or VAT counts as 0, as in validateForm)
FormCoherent(formData) ==
    LET gross == ParseFloat(formData.amount_gross)
        net   == OrZero(ParseFloat(formData.amount_net))
        vat   == OrZero(ParseFloat(formData.tax_vat))
    IN  /\ JsGt(gross, Num(0))
        /\ JsLe(JsAbs(JsSub(JsAdd(net, vat), gross)), Tolerance)

\* a stored expense is coherent
RowCoherent(row) ==
    /\ row.amount_gross > 0
    /\ row.amount_net + row.tax_vat - row.amount_gross <= 10
    /\ row.amount_gross - row.amount_net - row.tax_vat <= 10

\* C12: every expense saved through saveExpense has |net + VAT - gross| <= 0.01
\* and gross > 0; when the values of the form violate this, saveExpense reports
\* a form error and neither uploads a file nor inserts a record
C12_SavedExpensesCoherent ==
    [][ \A uid \in UserIds, formData \in Forms, hasFile, hasExtractedData \in BOOLEAN,
           failAt \in SaveFailures :
            SaveExpense(uid, formData, hasFile, hasExtractedData, failAt) =>
                /\ \A id \in DOMAIN expenses' \ DOMAIN expenses :
                        RowCoherent(expenses'[id])
                /\ ~FormCoherent(formData) =>
                        /\ lastOp'.outcome = "form_error"
                        /\ storageObjects' = storageObjects
                        /\ files' = files
                        /\ expenses' = expenses ]_vars

(***************************************************************************)
(* analyze-receipt: the responses                                           *)
(***************************************************************************)
\* a JPEG, PNG or PDF file of at most 10MB
ReceiptFileValid(file) ==
    /\ file.present
    /\ file.type \in {"image/jpeg", "image/jpg", "image/png", "application/pdf"}
    /\ file.size <= 10 * 1024 * 1024

\* C13 (as the code has it): the AI endpoint is called only for a JPEG, PNG or
\* PDF file of at most 10MB, a file of exactly 10MB is not refused, and when
\* the API key is configured and the body is form data, a missing file, any
\* other type and a larger file are answered with 400 and no AI call
C13_AiCallOnlyForValidFile ==
    arResponse.status # 0 =>
        /\ arResponse.geminiCalls > 0 => ReceiptFileValid(arRequest.file)
        /\ (arRequest.hasApiKey /\ ReceiptFileValid(arRequest.file)) =>
                arResponse.status # 400
        /\ (arRequest.hasApiKey /\ arRequest.file.multipart
                /\ ~ReceiptFileValid(arRequest.file)) =>
                arResponse.status = 400 /\ arResponse.geminiCalls = 0

\* a PDF of exactly 10MB has gone to the AI endpoint
C13_Witness ==
    /\ arRequest.file.size = 10 * 1024 * 1024
    /\ arResponse.geminiCalls = 1
    /\ arResponse.status = 200

\* C13 as stated: the AI endpoint is called only for a JPEG, PNG or PDF file of
\* at most 10MB, and every request with a missing file, another type or a
\* larger file is answered with 400 and no AI call
C13_InvalidFileAlways400 ==
    arResponse.status # 0 =>
        /\ arResponse.geminiCalls > 0 => ReceiptFileValid(arRequest.file)
        /\ ~ReceiptFileValid(arRequest.file) =>
                arResponse.status = 400 /\ arResponse.geminiCalls = 0

\* the request got as far as the call of the AI endpoint
AiCallReached(request) ==
    /\ request.hasApiKey
    /\ request.file.multipart
    /\ ReceiptFileValid(request.file)
    /\ request.gemini # "encode_error"

\* C14: a request makes at most one call to the AI endpoint, and when that call
\* returns a non-OK status, no generated text or text that is not valid JSON,
\* the request ends with a failure response (success = false) after that one
\* call
C14_OneAiCallNoRetry ==
    arResponse.status # 0 =>
        /\ arResponse.geminiCalls <= 1
        /\ (AiCallReached(arRequest)
              /\ arRequest.gemini \in {"http_error", "no_text", "bad_json"}) =>
                /\ arResponse.geminiCalls = 1
                /\ arResponse.hasSuccess /\ ~arResponse.success
                /\ arResponse.status # 200

\* the AI endpoint has answered a request with text that is not JSON
C14_Witness ==
    /\ AiCallReached(arRequest)
    /\ arRequest.gemini = "bad_json"
    /\ arResponse.geminiCalls = 1
    /\ ~arResponse.success

\* C15: every response to POST /analyze-receipt is a JSON object with a
\* boolean success field and exactly one of data (success true) or error
\* (success false)
C15_ResponseShape ==
    arResponse.status # 0 =>
        /\ arResponse.hasSuccess
        /\ arResponse.success => arResponse.error = ""
        /\ ~arResponse.success =>
                arResponse.error # "" /\ arResponse.data = NoData

(***************************************************************************)
(* rate-limiter: the responses                                              *)
(***************************************************************************)
\* C16: every allowed request is answered with 200 and the body
\* {allowed: true}, every rejected request with 429 carrying Retry-After,
\* X-RateLimit-Limit, X-RateLimit-Remaining and X-RateLimit-Reset, and
\* X-RateLimit-Limit is the maxRequests applied to the request
C16_ResponsesOfRateLimiter ==
    rlResponse.status # 0 =>
        /\ rlResponse.branch # "limited" =>
                rlResponse.status = 200 /\ rlResponse.allowed
        /\ rlResponse.branch = "limited" =>
                /\ rlResponse.status = 429
                /\ {"Retry-After", "X-RateLimit-Limit", "X-RateLimit-Remaining",
                     "X-RateLimit-Reset"} \subseteq rlResponse.headers
                /\ rlResponse.limitHeader = ConfigFor(rlResponse.req.path).maxRequests

\* a sign-up request has been rejected with the limit 3 in the header
C16_Witness ==
    /\ rlResponse.status = 429
    /\ rlResponse.req.path = "/auth/signup"
    /\ rlResponse.limitHeader = 3

\* the endpoints with a rule of their own that the path /rate-limiter/<endpoint>
\* names
EndpointsAt(path) ==
    {e \in DOMAIN rateLimitConfig \ {"default"} : path = "/rate-limiter" \o e}

\* C17: a request at /rate-limiter/<endpoint> is counted against the threshold
\* configured for <endpoint>: within a window no more requests of a client are
\* allowed at /rate-limiter/auth/signin than the 5 configured for /auth/signin
\* (3 for /auth/signup, 10 for /analyze-receipt)
C17_CountedAgainstEndpointThreshold ==
    \A pair \in DOMAIN allowedInWindow :
        \A e \in EndpointsAt(pair[2]) :
            allowedInWindow[pair] <= rateLimitConfig[e].maxRequests

(***************************************************************************)
(* Reading expenses                                                         *)
(***************************************************************************)
\* what the list of a tab may hold, and what the policies let uid read
ReadAccessOk ==
    /\ \A uid \in UserIds, id \in DOMAIN expenses :
            ExpensesSelectUsing(uid, expenses[id]) <=>
                \/ profiles[uid].role = "ADMIN"
                \/ expenses[id].employee_id = uid
    /\ \A tab \in Tabs :
            (sessions[tab].profile # Null
                /\ profiles[sessions[tab].profile].role = "EMPLOYEE") =>
                \A id \in DOMAIN sessions[tab].expenses :
                    /\ id \in DOMAIN expenses
                    /\ expenses[id].employee_id = sessions[tab].profile

\* C18: an EMPLOYEE reads an expense only if its employee_id is their own id
\* and an ADMIN reads every expense, both under the row-level policies and in
\* the list the Expenses page loads
C18_EmployeeReadsOwnAdminReadsAll ==
    [][ /\ ReadAccessOk'
        /\ \A tab \in Tabs, uid \in UserIds :
              MountExpenses(tab, uid) =>
                  DOMAIN sessions'[tab].expenses =
                      IF profiles[uid].role = "ADMIN" THEN DOMAIN expenses
                      ELSE {id \in DOMAIN expenses : expenses[id].employee_id = uid}
      ]_vars

\* the table holds an expense of the admin: the employee has just loaded an
\* empty list, the admin's list shows the expense
C18_Witness ==
    /\ \E id \in DOMAIN expenses : expenses[id].employee_id = "admin1"
    /\ sessions["tab1"].profile = "emp1"
    /\ sessions["tab2"].profile = "admin1"
    /\ lastOp.op = "loadExpenses" /\ lastOp.actor = "emp1"
    /\ DOMAIN sessions["tab1"].expenses = {}
    /\ DOMAIN sessions["tab2"].expenses = DOMAIN expenses

(***************************************************************************)
(* Errors of sign-in and sign-up                                            *)
(***************************************************************************)
\* the message shown for an exception
GenericAuthError == "Error inesperado. Por favor, inténtalo de nuevo."

\* the backend is called by this submission of the sign-in form
SignInCalled ==
    ClientIsAllowed(clientStorage, "/auth/signin", AuthLimit, now).allowed

AppLayoutPages == {AppPages[p] : p \in DOMAIN AppPages} \cup {"NotFound"}

UnknownPaths == Paths \ (PublicPaths \cup DOMAIN AppPages \cup {"/"})

\* C21: a route that does not exist shows the NotFound page, for a visitor who
\* is not authenticated as well as for a signed-in user: once the app has
\* loaded at such a path and loading has ended, NotFound is on the screen
C21_UnknownRouteShowsNotFound ==
    [][ (location \in UnknownPaths /\ GetSessionResolved) =>
            screen'.page = "NotFound" ]_vars

\* C22: ErrorBoundary enters the error state (hasError, fallback instead of
\* the children) whenever a child throws while rendering and, for as long as
\* the page is not loaded anew, leaves it only by handleReset; handleReset
\* clears hasError, error and errorInfo, the children are rendered again, and
\* nothing the application stores is touched
C22_ErrorStateUntilReset ==
    [][ /\ (\E error \in RenderErrors : ChildThrows(error)) =>
              /\ errorBoundary'.hasError
              /\ errorBoundary'.error \in RenderErrors
              /\ screen'.page = "ErrorFallback"
        /\ ( /\ errorBoundary.hasError
             /\ boundaryLife'.instance = boundaryLife.instance
             /\ boundaryLife'.resets = boundaryLife.resets ) =>
              errorBoundary'.hasError
        /\ handleReset =>
              /\ errorBoundary' = [hasError |-> FALSE, error |-> Null,
                                   errorInfo |-> Null]
              /\ screen'.page # "ErrorFallback"
              /\ UNCHANGED <<location, storedSession, dbVars, uiVars, authVars,
                             upVars>> ]_vars

\* the error state entered again by a render error after a reset
C22_Witness ==
    /\ errorBoundary.hasError
    /\ errorBoundary.errorInfo = ComponentStack("RangeError")
    /\ boundaryLife.resets >= 1
    /\ screen.page = "ErrorFallback"

\* C23: at most 3 sign-in calls of a 5-minute window reach the backend: once 3
\* calls of the window have been made, a handleSignIn before the window
\* expires shows the rate-limit message and makes no call
C23_ThreeSignInsPerWindow ==
    [][ /\ signInWindow'.calls <= 3
        /\ ( /\ signInWindow.calls = 3
             /\ now <= signInWindow.start + 300000
             /\ SignInStep ) =>
              /\ signInWindow' = signInWindow
              /\ authError' =
                    "Demasiados intentos de login. Intenta en " \o
                    ToString(CeilDiv(signInWindow.start + 300000 - now, 60000))
                    \o " minutos." ]_vars

\* a fourth submission of the window has been refused
C23_Witness ==
    /\ signInWindow.calls = 3
    /\ authError = "Demasiados intentos de login. Intenta en 5 minutos."
    /\ now <= signInWindow.start + 300000

\* C24: starting with an ADMIN profile, after any sequence and interleaving of
\* profile updates a profile with role ADMIN still exists
C24_AlwaysAnAdmin == \E id \in DOMAIN profiles : profiles[id].role = "ADMIN"

\* C25: a request the rate limiter rejects leaves the stored entries as they
\* are, and a stored count is always at least 1 and at most maxRequests of the
\* endpoint of every request the entry is the counter of
C25_RejectedLeavesEntryCountInRange ==
    [][ /\ (RlRequest /\ rlResponse'.status = 429) =>
              rateLimitStore' = rateLimitStore
        /\ \A req \in clients :
              KeyOf(req) \in DOMAIN rateLimitStore' =>
                  /\ rateLimitStore'[KeyOf(req)].count >= 1
                  /\ rateLimitStore'[KeyOf(req)].count <=
                        ConfigFor(req.path).maxRequests ]_vars

\* C26: through the page an expense becomes REJECTED only in a rejectExpense
\* that writes a non-blank rejection reason and the rejecting user as approver;
\* rejectExpense with no selected expense or a blank reason updates nothing
C26_RejectedWithReasonAndApprover ==
    [][ /\ \A id \in DOMAIN expenses' :
              ( /\ expenses'[id].status = "REJECTED"
                /\ id \in DOMAIN expenses => expenses[id].status # "REJECTED" ) =>
                  /\ lastOp'.op = "rejectExpense"
                  /\ lastOp'.id = id
                  /\ expenses'[id].rejection_reason \notin {Null, "", " ", "  "}
                  /\ expenses'[id].approver_id = lastOp'.actor
                  /\ get_current_user_role(lastOp'.actor) = "ADMIN"
        /\ \A tab \in Tabs, backendUp \in BOOLEAN :
              ( /\ RejectExpense(tab, backendUp)
                /\ \/ sessions[tab].selectedExpense = 0
                   \/ sessions[tab].rejectionReason \in {"", " ", "  "} ) =>
                  UNCHANGED dbVars ]_vars

\* an expense has been rejected, and a later rejectExpense with a blank reason
\* was refused
C26_Witness ==
    /\ \E id \in DOMAIN expenses :
          /\ expenses[id].status = "REJECTED"
          /\ expenses[id].rejection_reason = "duplicate"
          /\ expenses[id].approver_id = "admin1"
    /\ lastOp.op = "rejectExpense"
    /\ lastOp.outcome = "no_reason"

\* the vendor of the model's JSON is missing, blank, or has no character the
\* cleaning keeps
VendorUnusable(vendor) ==
    \/ vendor.t \in {"undefined", "null"}
    \/ /\ vendor.t = "string"
       /\ \A i \in 1..Len(vendor.chars) :
             vendor.chars[i] \notin WordChars \cup {"-", "."}

\* C27: the vendor of every successful result is a string of 1 to 100
\* characters, and it is the placeholder 'Comercio no identificado' when the
\* vendor of the generated JSON is missing, blank or made only of characters
\* the cleaning removes
C27_VendorNeverEmpty ==
    arResponse.success =>
        /\ arResponse.data.vendor.t = "string"
        /\ Len(arResponse.data.vendor.chars) \in 1..100
        /\ VendorUnusable(arRequest.parsed.vendor) =>
              arResponse.data.vendor.chars = VendorPlaceholder

\* C28: whenever analyzeReceipt has finished, by success, by an error result or
\* by a thrown or rejected invoke call, no progress timer of it is left,
\* analyzing is false and progress is 0, so that no later tick changes progress
C28_TimerClearedWhenFinished ==
    ~analysis.analyzing => analysis.timers = 0 /\ analysis.progress = 0

\* C29: saveExpense leaves no partial result: a file record comes into being
\* only in a saveExpense that succeeds, and the expense that call creates
\* references it
C29_NoOrphanFileRecord ==
    [][ \A f \in DOMAIN files' \ DOMAIN files :
            /\ lastOp'.op = "saveExpense"
            /\ lastOp'.outcome = "ok"
            /\ lastOp'.id \in DOMAIN expenses' \ DOMAIN expenses
            /\ expenses'[lastOp'.id].receipt_file_id = f ]_vars

\* C30: a user who registers through the sign-up form, which sends the role
\* EMPLOYEE, gets a profile with role EMPLOYEE, and the policies do not let
\* that user update (approve or reject) another user's pending expense
C30_SignUpGivesEmployee ==
    [][ \A u \in DOMAIN profiles' \ DOMAIN profiles :
            /\ profiles'[u].role = "EMPLOYEE"
            /\ ~ExpensesUpdateUsing(u, [employee_id |-> "emp1",
                                        status |-> "PENDING"])' ]_vars

====
